---------------------------- MODULE Spec2Model ----------------------------
(***************************************************************************)
(* The bookmark Mutation API (bookmarksAppRouter) with the job queues it   *)
(* produces into and the stage workers that consume them.                  *)
(*                                                                         *)
(* A request handler is an async function: every `await` is a point where  *)
(* other handlers and workers may run.  Each handler is therefore a small  *)
(* process; one step of the model is the code between two awaits, and the  *)
(* record calls[c] holds the handler's position and its local variables.   *)
(***************************************************************************)
EXTENDS Integers, FiniteSets, Sequences, TLC

(* ------------------------------ bounds -------------------------------- *)

\* Bookmark ids that can be handed out (ids are never reused).
MaxBookmarks == 2
\* Requests issued over a run.
MaxOps == 2

Users == {"u1", "u2"}
Ids == 1 .. MaxBookmarks
\* The request handlers that can be in flight at the same time.
Slots == {1, 2}
AssetIds == {"a1", "a2"}
TagNames == {"x"}
JobKinds == {"index", "delete"}

VARIABLES
  bookmarks,        \* table bookmarks: id -> row (the domain is the set of rows)
  bookmarkLinks,    \* table bookmarkLinks: id -> row; crawledAt is 0 for null and
                    \* n for the completion time of the row's n-th crawl
  bookmarkTexts,    \* table bookmarkTexts: id -> row
  bookmarkAssets,   \* table bookmarkAssets: id -> row
  bookmarkTags,     \* table bookmarkTags: tag id -> [name, userId]
  tagsOnBookmarks,  \* table tagsOnBookmarks: set of [bookmarkId, tagId, attachedBy]
  crawlQ,           \* LinkCrawlerQueue: bookmark id -> number of waiting jobs
  openaiQ,          \* OpenAIQueue: bookmark id -> number of waiting jobs
  videoQ,           \* the video topic: bookmark id -> number of waiting jobs
  searchQ,          \* SearchIndexingQueue: <<bookmark id, kind>> -> number of waiting jobs
  searchIdx,        \* the search engine's documents: id -> document
  searchW,          \* the search indexing worker's job in progress
  crawlW,           \* the crawl worker's job in progress
  openaiW,          \* the tagging worker's job in progress
  runs,             \* the promise of each worker's run(): worker -> state
  shutdownPromise,  \* state of shutdownPromise
  main,             \* where the worker process's main() is
  releaseLog,       \* deleteAsset calls made: <<userId, assetId>> -> count
  calls,            \* the request handlers in flight
  ret,              \* what the last finished request returned
  created,          \* history: id -> [type, userId, assetId] of every bookmark ever committed
  nOps,             \* requests issued so far
  now,              \* the clock: Date.now(), in milliseconds
  card,             \* the mobile BookmarkCard on screen: its query data and its polling
  pager             \* a client paging through getBookmarks

store == <<bookmarks, bookmarkLinks, bookmarkTexts, bookmarkAssets,
           bookmarkTags, tagsOnBookmarks>>
queues == <<crawlQ, openaiQ, searchQ>>
\* The worker process: the jobs its workers have in progress and its promises.
workers == <<searchW, crawlW, openaiW, runs, shutdownPromise, main>>
\* The promises main() waits on, and main() itself.
process == <<runs, shutdownPromise, main>>
\* The clock and the clients that read bookmarks.
clients == <<now, card, pager>>
vars == <<bookmarks, bookmarkLinks, bookmarkTexts, bookmarkAssets,
          bookmarkTags, tagsOnBookmarks, crawlQ, openaiQ, searchQ,
          searchIdx, searchW, crawlW, openaiW, runs, shutdownPromise, main,
          releaseLog, calls, ret, created, nOps, videoQ, now, card, pager>>

(* ------------------------------ helpers ------------------------------- *)

\* A function without the argument k.
Without(f, k) == [x \in DOMAIN f \ {k} |-> f[x]]

\* A function with f[k] = v added or replaced.
With(f, k, v) == [x \in DOMAIN f \cup {k} |-> IF x = k THEN v ELSE f[x]]

\* queue.add: one more waiting job with payload k.
Add(q, k) == [q EXCEPT ![k] = @ + 1]

\* A worker takes one job with payload k off the queue.
Take(q, k) == [q EXCEPT ![k] = @ - 1]

\* A handler that is not running.
NoInput == [type |-> "none"]
Idle == [pc |-> "idle", op |-> "none", user |-> "none", id |-> 0,
         in |-> NoInput, asset |-> "none", changes |-> 0, hits |-> {}]

\* The last finished request: operation, caller, target and result code; for
\* searchBookmarks also the engine's hits and the ids of the bookmarks returned.
Ret(op, u, id, code) ==
  [op |-> op, user |-> u, id |-> id, code |-> code, hits |-> {}, out |-> {}]

\* The id the next inserted bookmark row gets: ids are unique and never reused.
NextId == Cardinality(DOMAIN created) + 1

\* The id the next inserted tag row gets (tag rows are never deleted).
NextTagId == Cardinality(DOMAIN bookmarkTags) + 1

\* String.prototype.trim on the urls the model enumerates.
Trim(s) == IF s = " u " THEN "u" ELSE s

\* The search worker between jobs.
NoDoc == [userId |-> "none", title |-> "null", text |-> "null", tags |-> {}]
WorkerIdle == [pc |-> "idle", id |-> 0, doc |-> NoDoc]

\* The crawl or the tagging worker between jobs.
StageIdle == [pc |-> "idle", id |-> 0]

\* The workers main() builds and runs.
WorkerNames == {"crawler", "openai", "search", "video"}

\* The row insert(bookmarks).values({userId}) creates, with the columns' defaults;
\* createdAt defaults to the time of the insert.
NewBookmarkRow(u) ==
  [userId |-> u, archived |-> FALSE, favourited |-> FALSE, note |-> "null",
   taggingStatus |-> "pending", createdAt |-> now]

\* No BookmarkCard is on screen.
NoData == [type |-> "none"]
NoCard == [id |-> 0, data |-> NoData, interval |-> 0]

\* No client is paging.  A cursor of -1 is no cursor.
NoPager == [pc |-> "idle", user |-> "none", limit |-> 0, cursor |-> -1,
            pages |-> <<>>, snap |-> <<>>]

\* What the history keeps of a committed bookmark: its type, owner and asset, and
\* the number of recrawlBookmark requests accepted for it.
Created(type, u, assetId) ==
  [type |-> type, userId |-> u, assetId |-> assetId, recrawls |-> 0]

\* A function with the single argument k.
Only(k, v) == [x \in {k} |-> v]

\* The states a run starts from: the empty store, or bookmark 1 created by u1 and
\* fully processed, so that every queue is empty: a link that was crawled and whose
\* tagging failed, a text that was tagged x by the tagger, or an asset whose tagging
\* failed; the document of bookmark 1 was indexed after that.
Seeds == {"none", "link", "text", "asset"}

Init ==
  \E seed \in Seeds :
    /\ now = 0
    /\ card = NoCard
    /\ pager = NoPager
    /\ videoQ = [i \in Ids |-> 0]
    /\ bookmarks = IF seed = "none" THEN <<>>
                   ELSE Only(1, [NewBookmarkRow("u1") EXCEPT
                                   !.taggingStatus =
                                      IF seed = "text" THEN "success" ELSE "failure"])
    /\ bookmarkLinks = IF seed = "link"
                         THEN Only(1, [url |-> "u", title |-> "T", crawledAt |-> 1])
                         ELSE <<>>
    /\ bookmarkTexts = IF seed = "text" THEN Only(1, [text |-> "t0"]) ELSE <<>>
    /\ bookmarkAssets = IF seed = "asset"
                          THEN Only(1, [assetType |-> "image", assetId |-> "a1"])
                          ELSE <<>>
    /\ bookmarkTags = IF seed = "text" THEN Only(1, [name |-> "x", userId |-> "u1"])
                      ELSE <<>>
    /\ tagsOnBookmarks = IF seed = "text"
                           THEN {[bookmarkId |-> 1, tagId |-> 1, attachedBy |-> "ai"]}
                           ELSE {}
    /\ crawlQ = [i \in Ids |-> 0]
    /\ openaiQ = [i \in Ids |-> 0]
    /\ searchQ = [j \in Ids \X JobKinds |-> 0]
    /\ searchIdx = IF seed = "none" THEN <<>>
                   ELSE Only(1, [userId |-> "u1",
                                 title |-> IF seed = "link" THEN "T" ELSE "null",
                                 text |-> IF seed = "text" THEN "t0" ELSE "null",
                                 tags |-> IF seed = "text" THEN {"x"} ELSE {}])
    /\ searchW = WorkerIdle
    /\ crawlW = StageIdle
    /\ openaiW = StageIdle
    /\ runs = [w \in WorkerNames |-> "none"]
    /\ shutdownPromise = "pending"
    /\ main = "start"
    /\ releaseLog = [a \in Users \X AssetIds |-> 0]
    /\ calls = [c \in Slots |-> Idle]
    /\ ret = Ret("none", "none", 0, "none")
    /\ created = IF seed = "none" THEN <<>>
                 ELSE Only(1, Created(seed, "u1",
                                      IF seed = "asset" THEN "a1" ELSE "none"))
    /\ nOps = 0

(* --------------------------- the ownership gate ------------------------ *)

\* ensureBookmarkOwnership without the owner comparison.
ensureBookmarkOwnership_NoOwnerCheck(user, bookmarkId) ==
  IF user = "none" THEN "UNAUTHORIZED"
  ELSE IF bookmarkId \notin DOMAIN bookmarks THEN "NOT_FOUND"
  ELSE "OK"

\* ensureBookmarkOwnership comparing the owner before looking at whether the row
\* was found: reading userId of a missing row throws a TypeError.
ensureBookmarkOwnership_OwnerFirst(user, bookmarkId) ==
  IF user = "none" THEN "UNAUTHORIZED"
  ELSE IF bookmarkId \notin DOMAIN bookmarks THEN "INTERNAL_SERVER_ERROR"
  ELSE IF bookmarks[bookmarkId].userId # user THEN "FORBIDDEN"
  ELSE "OK"

\* ensureBookmarkOwnership letting a missing row through to the handler.
ensureBookmarkOwnership_NoExistenceCheck(user, bookmarkId) ==
  IF user = "none" THEN "UNAUTHORIZED"
  ELSE IF bookmarkId \notin DOMAIN bookmarks THEN "OK"
  ELSE IF bookmarks[bookmarkId].userId # user THEN "FORBIDDEN"
  ELSE "OK"

\* The middleware: the row is read, then the three checks run in this order.
ensureBookmarkOwnership(user, bookmarkId) ==
  IF user = "none" THEN "UNAUTHORIZED"
  ELSE IF bookmarkId \notin DOMAIN bookmarks THEN "NOT_FOUND"
  ELSE IF bookmarks[bookmarkId].userId # user THEN "FORBIDDEN"
  ELSE "OK"

\* A request arrives and takes the lowest free handler slot.
Invoke(c) ==
  /\ calls[c].pc = "idle"
  /\ \A d \in Slots : d < c => calls[d].pc # "idle"
  /\ nOps < MaxOps
  /\ nOps' = nOps + 1

\* .use(ensureBookmarkOwnership): the handler body (from `first`) runs only when
\* the middleware reaches opts.next(); otherwise the request ends with its error.
Enter(c, op, u, id, in, first) ==
  LET chk == ensureBookmarkOwnership(u, id) IN
    IF chk = "OK"
      THEN /\ calls' = [calls EXCEPT ![c] =
                          [Idle EXCEPT !.pc = first, !.op = op, !.user = u,
                                       !.id = id, !.in = in]]
           /\ UNCHANGED ret
      ELSE /\ ret' = Ret(op, u, id, chk)
           /\ UNCHANGED calls

\* The handler returns (code "OK") or throws (any other code).
Finish(c, code) ==
  /\ calls' = [calls EXCEPT ![c] = Idle]
  /\ ret' = Ret(calls[c].op, calls[c].user, calls[c].id, code)

\* The handler of slot c is at position pc of operation op.
At(c, op, pc) == calls[c].op = op /\ calls[c].pc = pc

\* The content type toZodSchema derives from which variant row exists.
toZodSchema(id) ==
  IF id \in DOMAIN bookmarkLinks THEN "link"
  ELSE IF id \in DOMAIN bookmarkTexts THEN "text"
  ELSE IF id \in DOMAIN bookmarkAssets THEN "asset"
  ELSE "unknown"

(* ----------------------------- createBookmark -------------------------- *)

Urls == {"u", " u "}
NewBookmarkInputs ==
  {[type |-> "link", url |-> s] : s \in Urls}
  \cup {[type |-> "text", text |-> "t0"]}
  \cup {[type |-> "asset", assetType |-> "image", assetId |-> "a2"]}
  \cup {[type |-> "unknown"]}

\* The tables as a transaction leaves them: ok says whether it committed.
Tables(ok, b, l, t, a) ==
  [ok |-> ok, bookmarks |-> b, bookmarkLinks |-> l, bookmarkTexts |-> t,
   bookmarkAssets |-> a]

\* createBookmark's transaction whose throw does not undo the bookmark insert.
CreateTx_NoRollback(u, in) ==
  LET id == NextId
      inserted == With(bookmarks, id, NewBookmarkRow(u))
  IN  CASE in.type = "link" ->
             Tables(TRUE, inserted,
                    With(bookmarkLinks, id,
                         [url |-> Trim(in.url), title |-> "null", crawledAt |-> 0]),
                    bookmarkTexts, bookmarkAssets)
        [] in.type = "text" ->
             Tables(TRUE, inserted, bookmarkLinks,
                    With(bookmarkTexts, id, [text |-> in.text]), bookmarkAssets)
        [] in.type = "asset" ->
             Tables(TRUE, inserted, bookmarkLinks, bookmarkTexts,
                    With(bookmarkAssets, id,
                         [assetType |-> in.assetType, assetId |-> in.assetId]))
        [] OTHER ->
             Tables(FALSE, inserted, bookmarkLinks, bookmarkTexts, bookmarkAssets)

\* createBookmark's transaction: the bookmark row is inserted, then the variant row
\* for input.type; type "unknown" throws BAD_REQUEST, which rolls the insert back.
CreateTx(u, in) ==
  LET id == NextId
      inserted == With(bookmarks, id, NewBookmarkRow(u))
  IN  CASE in.type = "link" ->
             Tables(TRUE, inserted,
                    With(bookmarkLinks, id,
                         [url |-> Trim(in.url), title |-> "null", crawledAt |-> 0]),
                    bookmarkTexts, bookmarkAssets)
        [] in.type = "text" ->
             Tables(TRUE, inserted, bookmarkLinks,
                    With(bookmarkTexts, id, [text |-> in.text]), bookmarkAssets)
        [] in.type = "asset" ->
             Tables(TRUE, inserted, bookmarkLinks, bookmarkTexts,
                    With(bookmarkAssets, id,
                         [assetType |-> in.assetType, assetId |-> in.assetId]))
        [] OTHER ->
             Tables(FALSE, bookmarks, bookmarkLinks, bookmarkTexts, bookmarkAssets)

\* createBookmark_tx enqueueing the index job from inside the transaction.
createBookmark_tx_EnqueueInside(c, u, in) ==
  LET tx == CreateTx(u, in) IN
    /\ Invoke(c)
    /\ NextId \in Ids
    /\ bookmarks' = tx.bookmarks
    /\ bookmarkLinks' = tx.bookmarkLinks
    /\ bookmarkTexts' = tx.bookmarkTexts
    /\ bookmarkAssets' = tx.bookmarkAssets
    /\ searchQ' = Add(searchQ, <<NextId, "index">>)
    /\ IF tx.ok
         THEN /\ calls' = [calls EXCEPT ![c] =
                             [Idle EXCEPT !.pc = "enqueue", !.op = "createBookmark",
                                          !.user = u, !.id = NextId, !.in = in]]
              /\ created' = With(created, NextId,
                                Created(in.type, u,
                                        IF in.type = "asset" THEN in.assetId
                                        ELSE "none"))
              /\ UNCHANGED ret
         ELSE /\ ret' = Ret("createBookmark", u, 0, "BAD_REQUEST")
              /\ UNCHANGED <<calls, created>>
    /\ UNCHANGED <<bookmarkTags, tagsOnBookmarks, crawlQ, openaiQ, searchIdx,
                   workers, videoQ, clients, releaseLog>>

\* await ctx.db.transaction(...): the whole transaction is one step; a throw inside
\* it ends the request before any queue is touched.
createBookmark_tx(c, u, in) ==
  LET tx == CreateTx(u, in) IN
    /\ Invoke(c)
    /\ NextId \in Ids
    /\ bookmarks' = tx.bookmarks
    /\ bookmarkLinks' = tx.bookmarkLinks
    /\ bookmarkTexts' = tx.bookmarkTexts
    /\ bookmarkAssets' = tx.bookmarkAssets
    /\ IF tx.ok
         THEN /\ calls' = [calls EXCEPT ![c] =
                             [Idle EXCEPT !.pc = "enqueue", !.op = "createBookmark",
                                          !.user = u, !.id = NextId, !.in = in]]
              /\ created' = With(created, NextId,
                                Created(in.type, u,
                                        IF in.type = "asset" THEN in.assetId
                                        ELSE "none"))
              /\ UNCHANGED ret
         ELSE /\ ret' = Ret("createBookmark", u, 0, "BAD_REQUEST")
              /\ UNCHANGED <<calls, created>>
    /\ UNCHANGED <<bookmarkTags, tagsOnBookmarks, queues, searchIdx, workers, videoQ, clients,
                   releaseLog>>

\* createBookmark_enqueue sending every new bookmark to the crawler.
createBookmark_enqueue_AlwaysCrawl(c) ==
  /\ At(c, "createBookmark", "enqueue")
  /\ crawlQ' = Add(crawlQ, calls[c].id)
  /\ calls' = [calls EXCEPT ![c].pc = "index"]
  /\ UNCHANGED <<store, openaiQ, searchQ, searchIdx, workers, videoQ, clients, releaseLog, ret,
                 created, nOps>>

\* switch (bookmark.content.type): a link goes to the crawler, text and asset go
\* straight to the tagger.
createBookmark_enqueue(c) ==
  /\ At(c, "createBookmark", "enqueue")
  /\ IF calls[c].in.type = "link"
       THEN crawlQ' = Add(crawlQ, calls[c].id) /\ UNCHANGED openaiQ
       ELSE openaiQ' = Add(openaiQ, calls[c].id) /\ UNCHANGED crawlQ
  /\ calls' = [calls EXCEPT ![c].pc = "index"]
  /\ UNCHANGED <<store, searchQ, searchIdx, workers, videoQ, clients, releaseLog, ret,
                 created, nOps>>

\* SearchIndexingQueue.add(... type: "index"), then return bookmark.
createBookmark_index(c) ==
  /\ At(c, "createBookmark", "index")
  /\ searchQ' = Add(searchQ, <<calls[c].id, "index">>)
  /\ Finish(c, "OK")
  /\ UNCHANGED <<store, crawlQ, openaiQ, searchIdx, workers, videoQ, clients, releaseLog,
                 created, nOps>>

createBookmark(c) ==
  \/ \E u \in Users, in \in NewBookmarkInputs : createBookmark_tx(c, u, in)
  \/ createBookmark_enqueue(c)
  \/ createBookmark_index(c)

(* ----------------------------- updateBookmark -------------------------- *)

\* Requests the model sends: a field left out of the record is undefined.
UpdateInputs ==
  {[archived |-> TRUE], [favourited |-> TRUE, note |-> "n1"]}

\* SetFlags putting the bookmark back to pending on every edit.
SetFlags_ResetTagging(row, in) ==
  [row EXCEPT
     !.archived = IF "archived" \in DOMAIN in THEN in.archived ELSE @,
     !.favourited = IF "favourited" \in DOMAIN in THEN in.favourited ELSE @,
     !.note = IF "note" \in DOMAIN in THEN in.note ELSE @,
     !.taggingStatus = "pending"]

\* SetFlags stamping the row with the time of the edit.
SetFlags_TouchesCreatedAt(row, in) ==
  [row EXCEPT
     !.archived = IF "archived" \in DOMAIN in THEN in.archived ELSE @,
     !.favourited = IF "favourited" \in DOMAIN in THEN in.favourited ELSE @,
     !.note = IF "note" \in DOMAIN in THEN in.note ELSE @,
     !.createdAt = now]

\* .set({archived, favourited, note}): an undefined field keeps the row's value.
SetFlags(row, in) ==
  [row EXCEPT
     !.archived = IF "archived" \in DOMAIN in THEN in.archived ELSE @,
     !.favourited = IF "favourited" \in DOMAIN in THEN in.favourited ELSE @,
     !.note = IF "note" \in DOMAIN in THEN in.note ELSE @]

\* update(bookmarks).set(...).where(userId = caller and id = bookmarkId).returning()
updateBookmark_update(c) ==
  LET id == calls[c].id
      hit == id \in DOMAIN bookmarks /\ bookmarks[id].userId = calls[c].user
  IN  /\ At(c, "updateBookmark", "update")
      /\ bookmarks' = IF hit
                        THEN [bookmarks EXCEPT ![id] = SetFlags(@, calls[c].in)]
                        ELSE bookmarks
      /\ calls' = [calls EXCEPT ![c].pc = "finish",
                                ![c].changes = IF hit THEN 1 ELSE 0]
      /\ UNCHANGED <<bookmarkLinks, bookmarkTexts, bookmarkAssets, bookmarkTags,
                     tagsOnBookmarks, queues, searchIdx, workers, videoQ, clients, releaseLog,
                     ret, created, nOps>>

\* updateBookmark_finish adding the index job before it looks at res.length.
updateBookmark_finish_EnqueueFirst(c) ==
  /\ At(c, "updateBookmark", "finish")
  /\ searchQ' = Add(searchQ, <<calls[c].id, "index">>)
  /\ Finish(c, IF calls[c].changes = 0 THEN "NOT_FOUND" ELSE "OK")
  /\ UNCHANGED <<store, crawlQ, openaiQ, searchIdx, workers, videoQ, clients, releaseLog,
                 created, nOps>>

\* if (res.length == 0) throw NOT_FOUND; SearchIndexingQueue.add(index); return
updateBookmark_finish(c) ==
  /\ At(c, "updateBookmark", "finish")
  /\ IF calls[c].changes = 0
       THEN Finish(c, "NOT_FOUND") /\ UNCHANGED searchQ
       ELSE Finish(c, "OK") /\ searchQ' = Add(searchQ, <<calls[c].id, "index">>)
  /\ UNCHANGED <<store, crawlQ, openaiQ, searchIdx, workers, videoQ, clients, releaseLog,
                 created, nOps>>

updateBookmark(c) ==
  \/ \E u \in Users, id \in Ids, in \in UpdateInputs :
       /\ Invoke(c)
       /\ Enter(c, "updateBookmark", u, id, in, "update")
       /\ UNCHANGED <<store, queues, searchIdx, workers, videoQ, clients, releaseLog, created>>
  \/ updateBookmark_update(c)
  \/ updateBookmark_finish(c)

(* --------------------------- updateBookmarkText ------------------------ *)

\* z.string().max(2000)
MaxTextLen == 2000

\* A text is its content and its length: the longest text the schema takes and the
\* shortest it refuses.
TextInputs ==
  {[text |-> "t1", len |-> MaxTextLen], [text |-> "long", len |-> MaxTextLen + 1]}

\* update(bookmarkTexts).set({text}).where(id = bookmarkId).returning()
updateBookmarkText_update(c) ==
  LET id == calls[c].id
      hit == id \in DOMAIN bookmarkTexts
  IN  /\ At(c, "updateBookmarkText", "update")
      /\ bookmarkTexts' = IF hit
                            THEN [bookmarkTexts EXCEPT ![id].text = calls[c].in.text]
                            ELSE bookmarkTexts
      /\ calls' = [calls EXCEPT ![c].pc = "finish",
                                ![c].changes = IF hit THEN 1 ELSE 0]
      /\ UNCHANGED <<bookmarks, bookmarkLinks, bookmarkAssets, bookmarkTags,
                     tagsOnBookmarks, queues, searchIdx, workers, videoQ, clients, releaseLog,
                     ret, created, nOps>>

\* updateBookmarkText_finish without the check of the rows the update returned.
updateBookmarkText_finish_NoCheck(c) ==
  /\ At(c, "updateBookmarkText", "finish")
  /\ Finish(c, "OK") /\ searchQ' = Add(searchQ, <<calls[c].id, "index">>)
  /\ UNCHANGED <<store, crawlQ, openaiQ, searchIdx, workers, videoQ, clients, releaseLog,
                 created, nOps>>

\* if (res.length == 0) throw NOT_FOUND; SearchIndexingQueue.add(index)
updateBookmarkText_finish(c) ==
  /\ At(c, "updateBookmarkText", "finish")
  /\ IF calls[c].changes = 0
       THEN Finish(c, "NOT_FOUND") /\ UNCHANGED searchQ
       ELSE Finish(c, "OK") /\ searchQ' = Add(searchQ, <<calls[c].id, "index">>)
  /\ UNCHANGED <<store, crawlQ, openaiQ, searchIdx, workers, videoQ, clients, releaseLog,
                 created, nOps>>

\* updateBookmarkText taking a text of any length.
updateBookmarkText_NoMax(c) ==
  \/ \E u \in Users, id \in Ids, in \in TextInputs :
       /\ Invoke(c)
       /\ Enter(c, "updateBookmarkText", u, id, in, "update")
       /\ UNCHANGED <<store, queues, searchIdx, workers, videoQ, clients, releaseLog,
                      created>>
  \/ updateBookmarkText_update(c)
  \/ updateBookmarkText_finish(c)

\* The input schema is checked before the middleware runs.
updateBookmarkText(c) ==
  \/ \E u \in Users, id \in Ids, in \in TextInputs :
       /\ Invoke(c)
       /\ IF in.len > MaxTextLen
            THEN ret' = Ret("updateBookmarkText", u, id, "BAD_REQUEST")
                 /\ UNCHANGED calls
            ELSE Enter(c, "updateBookmarkText", u, id, in, "update")
       /\ UNCHANGED <<store, queues, searchIdx, workers, videoQ, clients, releaseLog, created>>
  \/ updateBookmarkText_update(c)
  \/ updateBookmarkText_finish(c)

(* ----------------------------- deleteBookmark -------------------------- *)

\* ON DELETE CASCADE: the rows of the other tables that reference bookmark id.
CascadeLinks(id) == [x \in DOMAIN bookmarkLinks \ {id} |-> bookmarkLinks[x]]
CascadeTexts(id) == [x \in DOMAIN bookmarkTexts \ {id} |-> bookmarkTexts[x]]
CascadeAssets(id) == [x \in DOMAIN bookmarkAssets \ {id} |-> bookmarkAssets[x]]
CascadeTagsOnBookmarks(id) == {t \in tagsOnBookmarks : t.bookmarkId # id}

\* query.bookmarkAssets.findFirst({where: id = bookmarkId})
deleteBookmark_findAsset(c) ==
  LET id == calls[c].id IN
    /\ At(c, "deleteBookmark", "findAsset")
    /\ calls' = [calls EXCEPT ![c].pc = "delete",
                              ![c].asset = IF id \in DOMAIN bookmarkAssets
                                             THEN bookmarkAssets[id].assetId
                                             ELSE "none"]
    /\ UNCHANGED <<store, queues, searchIdx, workers, videoQ, clients, releaseLog, ret,
                   created, nOps>>

\* deleteBookmark_delete removing the bookmark row alone, its content row left.
deleteBookmark_delete_NoCascade(c) ==
  LET id == calls[c].id
      hit == id \in DOMAIN bookmarks /\ bookmarks[id].userId = calls[c].user
  IN  /\ At(c, "deleteBookmark", "delete")
      /\ bookmarks' = IF hit THEN Without(bookmarks, id) ELSE bookmarks
      /\ calls' = [calls EXCEPT ![c].pc = "finish",
                                ![c].changes = IF hit THEN 1 ELSE 0]
      /\ UNCHANGED <<bookmarkLinks, bookmarkTexts, bookmarkAssets, bookmarkTags,
                     tagsOnBookmarks, queues, searchIdx, workers, videoQ, clients, releaseLog, ret,
                     created, nOps>>

\* deleteBookmark_delete reporting a removed row whether or not it removed one.
deleteBookmark_delete_AlwaysChanged(c) ==
  LET id == calls[c].id
      hit == id \in DOMAIN bookmarks /\ bookmarks[id].userId = calls[c].user
  IN  /\ At(c, "deleteBookmark", "delete")
      /\ IF hit
           THEN /\ bookmarks' = Without(bookmarks, id)
                /\ bookmarkLinks' = CascadeLinks(id)
                /\ bookmarkTexts' = CascadeTexts(id)
                /\ bookmarkAssets' = CascadeAssets(id)
                /\ tagsOnBookmarks' = CascadeTagsOnBookmarks(id)
           ELSE UNCHANGED <<bookmarks, bookmarkLinks, bookmarkTexts,
                            bookmarkAssets, tagsOnBookmarks>>
      /\ calls' = [calls EXCEPT ![c].pc = "finish", ![c].changes = 1]
      /\ UNCHANGED <<bookmarkTags, queues, searchIdx, workers, videoQ, clients,
                     releaseLog, ret, created, nOps>>

\* delete(bookmarks).where(userId = caller and id = bookmarkId)
deleteBookmark_delete(c) ==
  LET id == calls[c].id
      hit == id \in DOMAIN bookmarks /\ bookmarks[id].userId = calls[c].user
  IN  /\ At(c, "deleteBookmark", "delete")
      /\ IF hit
           THEN /\ bookmarks' = Without(bookmarks, id)
                /\ bookmarkLinks' = CascadeLinks(id)
                /\ bookmarkTexts' = CascadeTexts(id)
                /\ bookmarkAssets' = CascadeAssets(id)
                /\ tagsOnBookmarks' = CascadeTagsOnBookmarks(id)
           ELSE UNCHANGED <<bookmarks, bookmarkLinks, bookmarkTexts,
                            bookmarkAssets, tagsOnBookmarks>>
      /\ calls' = [calls EXCEPT ![c].pc = "finish",
                                ![c].changes = IF hit THEN 1 ELSE 0]
      /\ UNCHANGED <<bookmarkTags, queues, searchIdx, workers, videoQ, clients, releaseLog, ret,
                     created, nOps>>

\* deleteBookmark_finish releasing the asset it found whatever the delete removed.
deleteBookmark_finish_UngatedRelease(c) ==
  /\ At(c, "deleteBookmark", "finish")
  /\ searchQ' = Add(searchQ, <<calls[c].id, "delete">>)
  /\ IF calls[c].asset # "none"
       THEN releaseLog' = Add(releaseLog, <<calls[c].user, calls[c].asset>>)
       ELSE UNCHANGED releaseLog
  /\ Finish(c, "OK")
  /\ UNCHANGED <<store, crawlQ, openaiQ, searchIdx, workers, videoQ, clients, created, nOps>>

\* SearchIndexingQueue.add(delete); if (deleted.changes > 0 && asset) deleteAsset(...)
deleteBookmark_finish(c) ==
  /\ At(c, "deleteBookmark", "finish")
  /\ searchQ' = Add(searchQ, <<calls[c].id, "delete">>)
  /\ IF calls[c].changes > 0 /\ calls[c].asset # "none"
       THEN releaseLog' = Add(releaseLog, <<calls[c].user, calls[c].asset>>)
       ELSE UNCHANGED releaseLog
  /\ Finish(c, "OK")
  /\ UNCHANGED <<store, crawlQ, openaiQ, searchIdx, workers, videoQ, clients, created, nOps>>

\* deleteBookmark adding the search delete job before it deletes the row.
deleteBookmark_EnqueueFirst(c) ==
  \/ \E u \in Users, id \in Ids :
       /\ Invoke(c)
       /\ Enter(c, "deleteBookmark", u, id, NoInput, "findAsset")
       /\ UNCHANGED <<store, queues, searchIdx, workers, videoQ, clients, releaseLog, created>>
  \/ /\ At(c, "deleteBookmark", "findAsset")
     /\ searchQ' = Add(searchQ, <<calls[c].id, "delete">>)
     /\ calls' = [calls EXCEPT ![c].pc = "delete",
                               ![c].asset = IF calls[c].id \in DOMAIN bookmarkAssets
                                              THEN bookmarkAssets[calls[c].id].assetId
                                              ELSE "none"]
     /\ UNCHANGED <<store, crawlQ, openaiQ, searchIdx, workers, videoQ, clients, releaseLog, ret,
                    created, nOps>>
  \/ deleteBookmark_delete(c)
  \/ /\ At(c, "deleteBookmark", "finish")
     /\ IF calls[c].changes > 0 /\ calls[c].asset # "none"
          THEN releaseLog' = Add(releaseLog, <<calls[c].user, calls[c].asset>>)
          ELSE UNCHANGED releaseLog
     /\ Finish(c, "OK")
     /\ UNCHANGED <<store, queues, searchIdx, workers, videoQ, clients, created, nOps>>

deleteBookmark(c) ==
  \/ \E u \in Users, id \in Ids :
       /\ Invoke(c)
       /\ Enter(c, "deleteBookmark", u, id, NoInput, "findAsset")
       /\ UNCHANGED <<store, queues, searchIdx, workers, videoQ, clients, releaseLog, created>>
  \/ deleteBookmark_findAsset(c)
  \/ deleteBookmark_delete(c)
  \/ deleteBookmark_finish(c)

(* ----------------------------- recrawlBookmark ------------------------- *)

\* recrawlBookmark_enqueue skipping a bookmark that already has a waiting crawl job.
recrawlBookmark_enqueue_Deduplicated(c) ==
  /\ At(c, "recrawlBookmark", "enqueue")
  /\ crawlQ' = IF crawlQ[calls[c].id] = 0 THEN Add(crawlQ, calls[c].id) ELSE crawlQ
  /\ Finish(c, "OK")
  /\ created' = [created EXCEPT ![calls[c].id].recrawls = @ + 1]
  /\ UNCHANGED <<store, openaiQ, searchQ, searchIdx, workers, videoQ, clients, releaseLog, nOps>>

\* recrawlBookmark_enqueue adding the crawl job twice.
recrawlBookmark_enqueue_Twice(c) ==
  /\ At(c, "recrawlBookmark", "enqueue")
  /\ crawlQ' = Add(Add(crawlQ, calls[c].id), calls[c].id)
  /\ Finish(c, "OK")
  /\ created' = [created EXCEPT ![calls[c].id].recrawls = @ + 1]
  /\ UNCHANGED <<store, openaiQ, searchQ, searchIdx, workers, videoQ, clients, releaseLog, nOps>>

\* await LinkCrawlerQueue.add("crawl", {bookmarkId})
recrawlBookmark_enqueue(c) ==
  /\ At(c, "recrawlBookmark", "enqueue")
  /\ crawlQ' = Add(crawlQ, calls[c].id)
  /\ Finish(c, "OK")
  /\ created' = [created EXCEPT ![calls[c].id].recrawls = @ + 1]
  /\ UNCHANGED <<store, openaiQ, searchQ, searchIdx, workers, videoQ, clients, releaseLog, nOps>>

recrawlBookmark(c) ==
  \/ \E u \in Users, id \in Ids :
       /\ Invoke(c)
       /\ Enter(c, "recrawlBookmark", u, id, NoInput, "enqueue")
       /\ UNCHANGED <<store, queues, searchIdx, workers, videoQ, clients, releaseLog, created>>
  \/ recrawlBookmark_enqueue(c)

(* ------------------------------- getBookmark --------------------------- *)

\* query.bookmarks.findFirst({where: userId = caller and id = bookmarkId, with: ...})
getBookmark_read(c) ==
  LET id == calls[c].id
      hit == id \in DOMAIN bookmarks /\ bookmarks[id].userId = calls[c].user
  IN  /\ At(c, "getBookmark", "read")
      /\ Finish(c, IF hit THEN "OK" ELSE "NOT_FOUND")
      /\ UNCHANGED <<store, queues, searchIdx, workers, videoQ, clients, releaseLog, created,
                     nOps>>

getBookmark(c) ==
  \/ \E u \in Users, id \in Ids :
       /\ Invoke(c)
       /\ Enter(c, "getBookmark", u, id, NoInput, "read")
       /\ UNCHANGED <<store, queues, searchIdx, workers, videoQ, clients, releaseLog, created>>
  \/ getBookmark_read(c)

(* ----------------------------- searchBookmarks ------------------------- *)

\* What client.search may answer.  The engine is not trusted to apply the filter or
\* to hold only documents of existing bookmarks, so each of these sets of ids is a
\* possible answer whatever the store holds.
HitSets == {{}, {1}, Ids}

\* searchBookmarks_client answering "no match" when there is no client.
searchBookmarks_client_EmptyOnMissing(c) ==
  /\ At(c, "searchBookmarks", "client")
  /\ IF ~ calls[c].in.client
       THEN Finish(c, "OK")
       ELSE \E hits \in HitSets :
              IF hits = {}
                THEN Finish(c, "OK")
                ELSE /\ calls' = [calls EXCEPT ![c].pc = "findMany",
                                               ![c].hits = hits,
                                               ![c].in.filter = calls[c].user]
                     /\ UNCHANGED ret
  /\ UNCHANGED <<store, queues, searchIdx, workers, videoQ, clients, releaseLog, created, nOps>>

\* if (!client) throw INTERNAL_SERVER_ERROR "Search functionality is not
\* configured"; resp = await client.search(text, {filter: [userId = caller]});
\* if (resp.hits.length == 0) return {bookmarks: []}
searchBookmarks_client(c) ==
  /\ At(c, "searchBookmarks", "client")
  /\ IF ~ calls[c].in.client
       THEN Finish(c, "INTERNAL_SERVER_ERROR")
       ELSE \E hits \in HitSets :
              IF hits = {}
                THEN Finish(c, "OK")
                ELSE /\ calls' = [calls EXCEPT ![c].pc = "findMany",
                                               ![c].hits = hits,
                                               ![c].in.filter = calls[c].user]
                     /\ UNCHANGED ret
  /\ UNCHANGED <<store, queues, searchIdx, workers, videoQ, clients, releaseLog, created, nOps>>

\* searchBookmarks_findMany selecting by the hit ids alone.
searchBookmarks_findMany_NoOwnerFilter(c) ==
  /\ At(c, "searchBookmarks", "findMany")
  /\ calls' = [calls EXCEPT ![c] = Idle]
  /\ ret' = [Ret("searchBookmarks", calls[c].user, 0, "OK") EXCEPT
               !.hits = calls[c].hits,
               !.out = calls[c].hits \cap DOMAIN bookmarks]
  /\ UNCHANGED <<store, queues, searchIdx, workers, videoQ, clients, releaseLog, created, nOps>>

\* query.bookmarks.findMany({where: userId = caller and id in hits}); the rows
\* found are returned.
searchBookmarks_findMany(c) ==
  /\ At(c, "searchBookmarks", "findMany")
  /\ calls' = [calls EXCEPT ![c] = Idle]
  /\ ret' = [Ret("searchBookmarks", calls[c].user, 0, "OK") EXCEPT
               !.hits = calls[c].hits,
               !.out = {id \in calls[c].hits :
                          /\ id \in DOMAIN bookmarks
                          /\ bookmarks[id].userId = calls[c].user}]
  /\ UNCHANGED <<store, queues, searchIdx, workers, videoQ, clients, releaseLog, created, nOps>>

\* An authedProcedure without the ownership middleware.  getSearchIdxClient() gives
\* a client or, when no search engine is configured, undefined.
searchBookmarks(c) ==
  \/ \E u \in Users, client \in BOOLEAN :
       /\ Invoke(c)
       /\ calls' = [calls EXCEPT ![c] =
                      [Idle EXCEPT !.pc = "client", !.op = "searchBookmarks",
                                   !.user = u,
                                   !.in = [type |-> "search", client |-> client,
                                           filter |-> "none"]]]
       /\ UNCHANGED <<store, queues, searchIdx, workers, videoQ, clients, releaseLog, ret, created>>
  \/ searchBookmarks_client(c)
  \/ searchBookmarks_findMany(c)

(* ------------------------------- updateTags ---------------------------- *)

\* attach entries name a tag (and may carry its id); detach entries carry tag ids.
UpdateTagsInputs ==
  {[attach |-> <<[tag |-> "x"]>>, detach |-> <<>>],
   [attach |-> <<[tag |-> "x"], [tag |-> "x"]>>, detach |-> <<>>],
   [attach |-> <<>>, detach |-> <<[tagId |-> 1]>>],
   [attach |-> <<[tag |-> "x"]>>, detach |-> <<[tagId |-> 1]>>]}

\* The elements of a sequence.
Range(s) == {s[i] : i \in DOMAIN s}

\* insert(bookmarkTags).values(names for owner u).onConflictDoNothing(): a name the
\* owner already has is skipped (name is unique per owner).
RECURSIVE InsertTags(_, _, _)
InsertTags(tags, names, u) ==
  IF names = <<>> THEN tags
  ELSE LET n == Head(names)
           dup == \E t \in DOMAIN tags : tags[t].name = n /\ tags[t].userId = u
           next == IF dup THEN tags
                   ELSE With(tags, Cardinality(DOMAIN tags) + 1,
                             [name |-> n, userId |-> u])
       IN  InsertTags(next, Tail(names), u)

\* InsertAttachments without the conflict clause taking effect: every row is added.
InsertAttachments_NoConflict(rows, id, tagIds, by) ==
  rows \cup {[bookmarkId |-> id, tagId |-> i, attachedBy |-> by] : i \in tagIds}

\* InsertAttachments as an upsert: a row that exists takes the new provenance.
InsertAttachments_Upsert(rows, id, tagIds, by) ==
  {r \in rows : ~ (r.bookmarkId = id /\ r.tagId \in tagIds)}
  \cup {[bookmarkId |-> id, tagId |-> i, attachedBy |-> by] : i \in tagIds}

\* insert(tagsOnBookmarks).values(...).onConflictDoNothing(): a (bookmark, tag) pair
\* that already has a row keeps that row.
InsertAttachments(rows, id, tagIds, by) ==
  rows \cup {[bookmarkId |-> id, tagId |-> i, attachedBy |-> by] :
               i \in {j \in tagIds :
                        ~ \E r \in rows : r.bookmarkId = id /\ r.tagId = j}}

\* The names of a sequence of attach entries that carry no tagId.
RECURSIVE NewNames(_)
NewNames(attach) ==
  IF attach = <<>> THEN <<>>
  ELSE IF "tagId" \in DOMAIN Head(attach) THEN NewNames(Tail(attach))
  ELSE <<Head(attach).tag>> \o NewNames(Tail(attach))

\* UpdateTagsTx without the foreign key of tagsOnBookmarks.bookmarkId: the attachment
\* is inserted for a bookmark row that is gone.
UpdateTagsTx_NoForeignKey(u, id, in) ==
  LET detachIds == {d.tagId : d \in Range(in.detach)}
      detached == IF Len(in.detach) > 0
                    THEN {t \in tagsOnBookmarks :
                            ~ (t.bookmarkId = id /\ t.tagId \in detachIds)}
                    ELSE tagsOnBookmarks
      tags1 == InsertTags(bookmarkTags, NewNames(in.attach), u)
      names == {a.tag : a \in Range(in.attach)}
      allIds == {t \in DOMAIN tags1 : tags1[t].userId = u /\ tags1[t].name \in names}
  IN  IF Len(in.attach) = 0
        THEN [ok |-> TRUE, bookmarkTags |-> bookmarkTags, tagsOnBookmarks |-> detached]
      ELSE IF allIds = {}
        THEN [ok |-> FALSE, bookmarkTags |-> bookmarkTags,
              tagsOnBookmarks |-> tagsOnBookmarks]
      ELSE [ok |-> TRUE, bookmarkTags |-> tags1,
            tagsOnBookmarks |-> InsertAttachments(detached, id, allIds, "human")]

\* updateTags' transaction: detaches, then tag creation, lookup by name and
\* attachment with provenance human.  Inserting no attachment row at all, or one
\* for a bookmark row that is gone, throws and rolls everything back.
UpdateTagsTx(u, id, in) ==
  LET detachIds == {d.tagId : d \in Range(in.detach)}
      detached == IF Len(in.detach) > 0
                    THEN {t \in tagsOnBookmarks :
                            ~ (t.bookmarkId = id /\ t.tagId \in detachIds)}
                    ELSE tagsOnBookmarks
      tags1 == InsertTags(bookmarkTags, NewNames(in.attach), u)
      names == {a.tag : a \in Range(in.attach)}
      allIds == {t \in DOMAIN tags1 : tags1[t].userId = u /\ tags1[t].name \in names}
  IN  IF Len(in.attach) = 0
        THEN [ok |-> TRUE, bookmarkTags |-> bookmarkTags, tagsOnBookmarks |-> detached]
      ELSE IF allIds = {} \/ id \notin DOMAIN bookmarks
        THEN [ok |-> FALSE, bookmarkTags |-> bookmarkTags,
              tagsOnBookmarks |-> tagsOnBookmarks]
      ELSE [ok |-> TRUE, bookmarkTags |-> tags1,
            tagsOnBookmarks |-> InsertAttachments(detached, id, allIds, "human")]

\* await ctx.db.transaction(...): one step; no queue is touched.
updateTags_tx(c) ==
  LET tx == UpdateTagsTx(calls[c].user, calls[c].id, calls[c].in) IN
    /\ At(c, "updateTags", "tx")
    /\ bookmarkTags' = tx.bookmarkTags
    /\ tagsOnBookmarks' = tx.tagsOnBookmarks
    /\ Finish(c, IF tx.ok THEN "OK" ELSE "INTERNAL_SERVER_ERROR")
    /\ UNCHANGED <<bookmarks, bookmarkLinks, bookmarkTexts, bookmarkAssets, queues,
                   searchIdx, workers, videoQ, clients, releaseLog, created, nOps>>

updateTags(c) ==
  \/ \E u \in Users, id \in Ids, in \in UpdateTagsInputs :
       /\ Invoke(c)
       /\ Enter(c, "updateTags", u, id, in, "tx")
       /\ UNCHANGED <<store, queues, searchIdx, workers, videoQ, clients, releaseLog, created>>
  \/ updateTags_tx(c)

\* Inputs whose attach entries carry the id of a tag: the tag the entry names, a
\* tag listed in detach as well, and an id sent with a name the caller has no tag of.
UpdateTagsIdInputs ==
  {[attach |-> <<[tagId |-> 1, tag |-> "x"]>>, detach |-> <<>>],
   [attach |-> <<[tagId |-> 1, tag |-> "x"]>>, detach |-> <<[tagId |-> 1]>>],
   [attach |-> <<[tag |-> "y"]>>, detach |-> <<[tagId |-> 1]>>],
   [attach |-> <<[tagId |-> 2, tag |-> "y"]>>, detach |-> <<>>],
   [attach |-> <<[tagId |-> 2, tag |-> "y"], [tag |-> "x"]>>, detach |-> <<>>]}

\* updateTags called with attach entries that carry a tagId.
updateTags_withTagId(c) ==
  \E u \in Users, id \in Ids, in \in UpdateTagsIdInputs :
    /\ Invoke(c)
    /\ Enter(c, "updateTags", u, id, in, "tx")
    /\ UNCHANGED <<store, queues, searchIdx, workers, videoQ, clients, releaseLog, created>>

(* --------------------------- the stage workers -------------------------- *)

\* The search document of bookmark id: owner id and searchable text (title, text,
\* tag names), read from the current rows.
DocOf(id) ==
  [userId |-> bookmarks[id].userId,
   title |-> IF id \in DOMAIN bookmarkLinks THEN bookmarkLinks[id].title ELSE "null",
   text |-> IF id \in DOMAIN bookmarkTexts THEN bookmarkTexts[id].text ELSE "null",
   tags |-> {bookmarkTags[t.tagId].name :
               t \in {r \in tagsOnBookmarks : r.bookmarkId = id}}]

\* Search indexing worker, kind delete: the document is removed by id; a missing
\* document is not an error.
SearchDelete(id) ==
  /\ searchW.pc = "idle"
  /\ searchQ[<<id, "delete">>] > 0
  /\ searchQ' = Take(searchQ, <<id, "delete">>)
  /\ searchIdx' = Without(searchIdx, id)
  /\ UNCHANGED <<store, crawlQ, openaiQ, searchW, crawlW, openaiW, process, videoQ, clients,
                 releaseLog, calls, ret, created, nOps>>

\* Search indexing worker, kind index: the bookmark is re-read; a bookmark that no
\* longer exists leaves nothing to do.
SearchRead(id) ==
  /\ searchW.pc = "idle"
  /\ searchQ[<<id, "index">>] > 0
  /\ searchQ' = Take(searchQ, <<id, "index">>)
  /\ searchW' = IF id \in DOMAIN bookmarks
                  THEN [pc |-> "upsert", id |-> id, doc |-> DocOf(id)]
                  ELSE WorkerIdle
  /\ UNCHANGED <<store, crawlQ, openaiQ, searchIdx, crawlW, openaiW, process, videoQ, clients,
                 releaseLog, calls, ret, created, nOps>>

\* Search indexing worker, kind index: the document read is upserted by id.
SearchUpsert ==
  /\ searchW.pc = "upsert"
  /\ searchIdx' = With(searchIdx, searchW.id, searchW.doc)
  /\ searchW' = WorkerIdle
  /\ UNCHANGED <<store, queues, crawlW, openaiW, process, videoQ, clients, releaseLog, calls,
                 ret, created, nOps>>

\* Crawl worker, a job is taken: the link row is re-read; a bookmark without one
\* (deleted, or not a link) leaves nothing to do and the job ends as a success.
CrawlTake(id) ==
  /\ crawlW.pc = "idle"
  /\ crawlQ[id] > 0
  /\ crawlQ' = Take(crawlQ, id)
  /\ crawlW' = IF id \in DOMAIN bookmarkLinks THEN [pc |-> "fetch", id |-> id]
               ELSE StageIdle
  /\ UNCHANGED <<store, openaiQ, searchQ, searchIdx, searchW, openaiW, process, videoQ, clients,
                 releaseLog, calls, ret, created, nOps>>

\* Crawl worker, the fetch succeeded: title and crawledAt (the completion time) are
\* written on the link row and the tagging stage is enqueued; when the row is gone
\* nothing is written.
CrawlSuccess ==
  LET id == crawlW.id IN
    /\ crawlW.pc = "fetch"
    /\ crawlW' = StageIdle
    /\ IF id \in DOMAIN bookmarkLinks
         THEN /\ bookmarkLinks' = [bookmarkLinks EXCEPT ![id].title = "T",
                                                        ![id].crawledAt = @ + 1]
              /\ openaiQ' = Add(openaiQ, id)
         ELSE UNCHANGED <<bookmarkLinks, openaiQ>>
    /\ UNCHANGED <<bookmarks, bookmarkTexts, bookmarkAssets, bookmarkTags,
                   tagsOnBookmarks, crawlQ, searchQ, searchIdx, searchW, openaiW,
                   process, videoQ, clients, releaseLog, calls, ret, created, nOps>>

\* Crawl worker, attempts exhausted: crawledAt is left as it is, nothing is enqueued.
CrawlFailure ==
  /\ crawlW.pc = "fetch"
  /\ crawlW' = StageIdle
  /\ UNCHANGED <<store, queues, searchIdx, searchW, openaiW, process, videoQ, clients, releaseLog,
                 calls, ret, created, nOps>>

\* Tagging worker, a job is taken: the bookmark is re-read and its taggingStatus set
\* to pending; a bookmark that is gone leaves nothing to do.
OpenAITake(id) ==
  /\ openaiW.pc = "idle"
  /\ openaiQ[id] > 0
  /\ openaiQ' = Take(openaiQ, id)
  /\ IF id \in DOMAIN bookmarks
       THEN /\ openaiW' = [pc |-> "tag", id |-> id]
            /\ bookmarks' = [bookmarks EXCEPT ![id].taggingStatus = "pending"]
       ELSE /\ openaiW' = StageIdle
            /\ UNCHANGED bookmarks
  /\ UNCHANGED <<bookmarkLinks, bookmarkTexts, bookmarkAssets, bookmarkTags,
                 tagsOnBookmarks, crawlQ, searchQ, searchIdx, searchW, crawlW,
                 process, videoQ, clients, releaseLog, calls, ret, created, nOps>>

\* Tagging worker, the tagger answered: the returned tags are attached with
\* provenance ai (a tag already attached is skipped) and taggingStatus becomes
\* success; when the bookmark is gone nothing is written.
OpenAISuccess ==
  LET id == openaiW.id IN
    /\ openaiW.pc = "tag"
    /\ openaiW' = StageIdle
    /\ IF id \in DOMAIN bookmarks
         THEN LET u == bookmarks[id].userId
                  tags1 == InsertTags(bookmarkTags, <<"x">>, u)
                  ids == {t \in DOMAIN tags1 :
                            tags1[t].userId = u /\ tags1[t].name = "x"}
              IN  /\ bookmarkTags' = tags1
                  /\ tagsOnBookmarks' =
                       InsertAttachments(tagsOnBookmarks, id, ids, "ai")
                  /\ bookmarks' = [bookmarks EXCEPT ![id].taggingStatus = "success"]
         ELSE UNCHANGED <<bookmarks, bookmarkTags, tagsOnBookmarks>>
    /\ UNCHANGED <<bookmarkLinks, bookmarkTexts, bookmarkAssets, queues, searchIdx,
                   searchW, crawlW, process, videoQ, clients, releaseLog, calls, ret, created, nOps>>

\* Tagging worker, the tagger failed: taggingStatus becomes failure.
OpenAIFailure ==
  LET id == openaiW.id IN
    /\ openaiW.pc = "tag"
    /\ openaiW' = StageIdle
    /\ IF id \in DOMAIN bookmarks
         THEN bookmarks' = [bookmarks EXCEPT ![id].taggingStatus = "failure"]
         ELSE UNCHANGED bookmarks
    /\ UNCHANGED <<bookmarkLinks, bookmarkTexts, bookmarkAssets, bookmarkTags,
                   tagsOnBookmarks, queues, searchIdx, searchW, crawlW, process, videoQ, clients,
                   releaseLog, calls, ret, created, nOps>>

\* The search indexing worker takes one job at a time, in any order.
SearchWorker ==
  \/ \E id \in Ids : SearchDelete(id)
  \/ \E id \in Ids : SearchRead(id)
  \/ SearchUpsert

\* The crawl and tagging workers, each with one job in progress at a time.
StageWorkers ==
  \/ \E id \in Ids : CrawlTake(id)
  \/ CrawlSuccess
  \/ CrawlFailure
  \/ \E id \in Ids : OpenAITake(id)
  \/ OpenAISuccess
  \/ OpenAIFailure

Api(c) ==
  \/ createBookmark(c)
  \/ updateBookmark(c)
  \/ updateBookmarkText(c)
  \/ deleteBookmark(c)
  \/ recrawlBookmark(c)
  \/ getBookmark(c)
  \/ searchBookmarks(c)
  \/ updateTags(c)

(* ------------------------- the clock and the card ---------------------- *)

\* Clock steps over a run.
MaxTicks == 3
\* The length of one clock step, in milliseconds: half the loading window, so that
\* an age just inside the window, exactly at its end and beyond it all occur.
TickMsec == 15 * 1000

\* Time passes.  A clock step is far longer than a request, so no handler is between
\* two of its awaits when it is taken; a crawl or tagging job may be in progress.
Tick ==
  /\ \A c \in Slots : calls[c].pc = "idle"
  /\ now < MaxTicks * TickMsec
  /\ now' = now + TickMsec
  /\ UNCHANGED <<store, queues, searchIdx, workers, releaseLog, calls, ret, created,
                 nOps, videoQ, card, pager>>

\* const MAX_LOADING_MSEC = 30 * 1000
MAX_LOADING_MSEC == 30 * 1000

\* The ZBookmark getBookmark returns for bookmark id: the row with its content;
\* crawledAt is 0 (null) unless the content is a crawled link.
ZBookmarkOf(id) ==
  [type |-> toZodSchema(id),
   crawledAt |-> IF id \in DOMAIN bookmarkLinks THEN bookmarkLinks[id].crawledAt
                 ELSE 0,
   taggingStatus |-> bookmarks[id].taggingStatus,
   createdAt |-> bookmarks[id].createdAt]

\* isBookmarkStillCrawling measuring the age from crawledAt being unset alone.
isBookmarkStillCrawling_NoWindow(bookmark) ==
  /\ bookmark.type = "link"
  /\ bookmark.crawledAt = 0

isBookmarkStillCrawling(bookmark) ==
  /\ bookmark.type = "link"
  /\ bookmark.crawledAt = 0
  /\ now - bookmark.createdAt < MAX_LOADING_MSEC

isBookmarkStillTagging(bookmark) ==
  /\ bookmark.taggingStatus = "pending"
  /\ now - bookmark.createdAt < MAX_LOADING_MSEC

isBookmarkStillLoading(bookmark) ==
  isBookmarkStillTagging(bookmark) \/ isBookmarkStillCrawling(bookmark)

\* refetchInterval: 1000 while the data is still loading, false (here 0) otherwise
\* and when there is no data.
refetchInterval(data) ==
  IF data = NoData THEN 0
  ELSE IF isBookmarkStillLoading(data) THEN 1000
  ELSE 0

\* A BookmarkCard is rendered for bookmark id with the bookmark as initialData.
CardMount(id) ==
  /\ card = NoCard
  /\ id \in DOMAIN bookmarks
  /\ card' = [id |-> id, data |-> ZBookmarkOf(id),
              interval |-> refetchInterval(ZBookmarkOf(id))]
  /\ UNCHANGED <<store, queues, searchIdx, workers, releaseLog, calls, ret, created,
                 nOps, videoQ, now, pager>>

\* The refetch timer fires: getBookmark is queried again (a failed query keeps the
\* data the card has) and refetchInterval is evaluated on the result.
CardRefetch ==
  LET data == IF card.id \in DOMAIN bookmarks THEN ZBookmarkOf(card.id)
              ELSE card.data
  IN  /\ card.interval > 0
      /\ card' = [card EXCEPT !.data = data, !.interval = refetchInterval(data)]
      /\ UNCHANGED <<store, queues, searchIdx, workers, releaseLog, calls, ret,
                     created, nOps, videoQ, now, pager>>

(* ------------------------------ getBookmarks --------------------------- *)

\* Pages a client asks for over a run.
MaxPages == 3
\* input.limit
Limits == {1, 2}

\* The rows the subquery selects from: the caller's bookmarks, up to the cursor.
Matching(u, cursor) ==
  {id \in DOMAIN bookmarks :
     /\ bookmarks[id].userId = u
     /\ cursor # -1 => bookmarks[id].createdAt <= cursor}

\* orderBy(desc(createdAt)): every order of the ids S by descending createdAt; the
\* order of rows with equal createdAt is the database's choice.
OrderByDesc(S) ==
  {q \in [1 .. Cardinality(S) -> S] :
     /\ \A i, j \in DOMAIN q : i # j => q[i] # q[j]
     /\ \A i, j \in DOMAIN q :
          i < j => bookmarks[q[i]].createdAt >= bookmarks[q[j]].createdAt}

\* .limit(n): the first n rows.
LimitTo(q, n) == IF Len(q) > n THEN SubSeq(q, 1, n) ELSE q

\* What one getBookmarks call may return for caller u: the subquery takes limit + 1
\* rows in descending order, the outer query orders them again, and a row beyond
\* limit is popped off and its createdAt returned as nextCursor (-1 for null).
getBookmarks(u, limit, cursor) ==
  {[bookmarks |-> LimitTo(arr, limit),
    nextCursor |-> IF Len(arr) > limit THEN bookmarks[arr[Len(arr)]].createdAt
                   ELSE -1] :
     arr \in UNION {OrderByDesc({q[i] : i \in DOMAIN LimitTo(q, limit + 1)}) :
                      q \in OrderByDesc(Matching(u, cursor))}}

\* A client starts paging, without a cursor.
PagerStart(u, limit) ==
  /\ pager.pc = "idle"
  /\ pager' = [NoPager EXCEPT !.pc = "paging", !.user = u, !.limit = limit,
                              !.snap = bookmarks]
  /\ UNCHANGED <<store, queues, searchIdx, workers, releaseLog, calls, ret, created,
                 nOps, videoQ, now, card>>

\* The client calls getBookmarks with the cursor it holds, keeps the page and goes
\* on with the nextCursor returned until that is null.
PagerFetch ==
  /\ pager.pc = "paging"
  /\ Len(pager.pages) < MaxPages
  /\ \E res \in getBookmarks(pager.user, pager.limit, pager.cursor) :
       pager' = [pager EXCEPT !.pages = Append(@, res.bookmarks),
                              !.cursor = res.nextCursor,
                              !.pc = IF res.nextCursor = -1 THEN "done" ELSE "paging"]
  /\ UNCHANGED <<store, queues, searchIdx, workers, releaseLog, calls, ret, created,
                 nOps, videoQ, now, card>>

(* --------------------------- the worker process ------------------------ *)

\* Promise.all: rejected as soon as one input is, fulfilled once all are; an input
\* that is not a promise (undefined) counts as fulfilled.
PromiseAll(ps) ==
  IF \E i \in DOMAIN ps : ps[i] = "rejected" THEN "rejected"
  ELSE IF \A i \in DOMAIN ps : ps[i] \in {"fulfilled", "undefined"} THEN "fulfilled"
  ELSE "pending"

\* Promise.any: fulfilled as soon as one input is, rejected once all are.
PromiseAny(ps) ==
  IF \E i \in DOMAIN ps : ps[i] = "fulfilled" THEN "fulfilled"
  ELSE IF \A i \in DOMAIN ps : ps[i] = "rejected" THEN "rejected"
  ELSE "pending"

\* The promise main() awaits:
\* Promise.any([Promise.all([crawler.run(), ..., video?.run()]), shutdownPromise])
Awaited == PromiseAny(<<PromiseAll(runs), shutdownPromise>>)

\* mainBuild calling video.run() without the optional chaining: with no video
\* worker the call throws a TypeError and main() ends there.
mainBuild_VideoRequired(video) ==
  /\ main = "start"
  /\ runs' = [w \in WorkerNames |->
               IF w = "video" /\ ~ video THEN "undefined" ELSE "pending"]
  /\ main' = IF video THEN "awaiting" ELSE "threw"
  /\ UNCHANGED <<store, queues, searchIdx, searchW, crawlW, openaiW,
                 shutdownPromise, releaseLog, calls, ret, created, nOps, videoQ,
                 clients>>

\* main() up to its await: the four workers are built and run() is called on each
\* of them; VideoWorker.build() gives no worker when the video capability is not
\* configured, and video?.run() is then undefined instead of a promise.
mainBuild(video) ==
  /\ main = "start"
  /\ runs' = [w \in WorkerNames |->
               IF w = "video" /\ ~ video THEN "undefined" ELSE "pending"]
  /\ main' = "awaiting"
  /\ UNCHANGED <<store, queues, searchIdx, searchW, crawlW, openaiW,
                 shutdownPromise, releaseLog, calls, ret, created, nOps, videoQ,
                 clients>>

\* A worker's run() fails (the broker is unreachable).
RunRejects(w) ==
  /\ main = "awaiting"
  /\ runs[w] = "pending"
  /\ runs' = [runs EXCEPT ![w] = "rejected"]
  /\ UNCHANGED <<store, queues, searchIdx, searchW, crawlW, openaiW,
                 shutdownPromise, main, releaseLog, calls, ret, created, nOps, videoQ, clients>>

\* A worker's run() ends normally.
RunFulfils(w) ==
  /\ main = "awaiting"
  /\ runs[w] = "pending"
  /\ runs' = [runs EXCEPT ![w] = "fulfilled"]
  /\ UNCHANGED <<store, queues, searchIdx, searchW, crawlW, openaiW,
                 shutdownPromise, main, releaseLog, calls, ret, created, nOps, videoQ, clients>>

\* shutdownPromise settles.
Shutdown(how) ==
  /\ main = "awaiting"
  /\ shutdownPromise = "pending"
  /\ shutdownPromise' = how
  /\ UNCHANGED <<store, queues, searchIdx, searchW, crawlW, openaiW, runs, main,
                 releaseLog, calls, ret, created, nOps, videoQ, clients>>

\* The await in main() ends: main returns, or throws what the promise rejected with.
mainSettles ==
  /\ main = "awaiting"
  /\ Awaited # "pending"
  /\ main' = IF Awaited = "fulfilled" THEN "returned" ELSE "threw"
  /\ UNCHANGED <<store, queues, searchIdx, searchW, crawlW, openaiW, runs,
                 shutdownPromise, releaseLog, calls, ret, created, nOps, videoQ, clients>>

\* The Mutation API with the search indexing worker.
Next ==
  \/ \E c \in Slots : Api(c)
  \/ SearchWorker

\* The Mutation API, one request at a time, with the crawl and tagging workers.
NextPipeline ==
  \/ Api(1)
  \/ StageWorkers

\* Creation and deletion, one request at a time, with every worker of the pipeline.
NextCancel ==
  \/ createBookmark(1)
  \/ deleteBookmark(1)
  \/ SearchWorker
  \/ StageWorkers

\* The promises of the worker process.
NextMain ==
  \/ \E video \in BOOLEAN : mainBuild(video)
  \/ \E w \in WorkerNames : RunRejects(w)
  \/ \E w \in WorkerNames : RunFulfils(w)
  \/ \E how \in {"fulfilled", "rejected"} : Shutdown(how)
  \/ mainSettles

\* The Mutation API, one request at a time, while the worker process starts.
NextVideo ==
  \/ Api(1)
  \/ \E video \in BOOLEAN : mainBuild(video)

\* Bookmarks created by one user and the crawl and tagging workers, while time
\* passes and a BookmarkCard shows one of the bookmarks.
NextCard ==
  \/ \E in \in NewBookmarkInputs : createBookmark_tx(1, "u1", in)
  \/ createBookmark_enqueue(1)
  \/ createBookmark_index(1)
  \/ StageWorkers
  \/ Tick
  \/ \E id \in Ids : CardMount(id)
  \/ CardRefetch

\* The Mutation API, one request at a time, while time passes.
NextClock ==
  \/ Api(1)
  \/ Tick

\* Bookmarks created by one user while time passes, and then a client paging
\* through getBookmarks over the store as it stands.
NextPages ==
  \/ /\ pager.pc = "idle"
     /\ \/ \E in \in NewBookmarkInputs : createBookmark_tx(1, "u1", in)
        \/ createBookmark_enqueue(1)
        \/ createBookmark_index(1)
        \/ Tick
  \/ \E u \in Users, limit \in Limits : PagerStart(u, limit)
  \/ PagerFetch

\* Bookmarks created and their tags edited by name and by id, one request at a time.
NextTags ==
  \/ createBookmark(1)
  \/ updateTags(1)
  \/ updateTags_withTagId(1)

Spec == Init /\ [][Next]_vars

SpecTags == Init /\ [][NextTags]_vars

SpecPages == Init /\ [][NextPages]_vars

SpecClock == Init /\ [][NextClock]_vars

SpecCard == Init /\ [][NextCard]_vars

SpecVideo == Init /\ [][NextVideo]_vars

SpecPipeline == Init /\ [][NextPipeline]_vars

SpecCancel == Init /\ [][NextCancel]_vars

SpecMain == Init /\ [][NextMain]_vars

(* ------------------------------ properties ----------------------------- *)

\* The operations that go through ensureBookmarkOwnership.
GatedOps == {"updateBookmark", "updateBookmarkText", "deleteBookmark",
             "recrawlBookmark", "getBookmark", "updateTags"}

\* This step is the arrival of a request.
StartStep == nOps' = nOps + 1

\* This step is the arrival of a request that ends at once, with ret' its result.
Rejected == StartStep /\ calls' = calls

\* This step is the arrival of a request whose handler body starts in slot c.
Started(c) == StartStep /\ calls[c].pc = "idle" /\ calls'[c].pc # "idle"

\* No request handler is running.
NoHandler == \A c \in Slots : calls[c].pc = "idle"

\* What C1 asks of every step.
GateStep ==
  /\ \A c \in Slots :
       (Started(c) /\ calls'[c].op \in GatedOps)
         => /\ calls'[c].id \in DOMAIN bookmarks
            /\ bookmarks[calls'[c].id].userId = calls'[c].user
  /\ (Rejected /\ ret'.op \in GatedOps /\ ret'.code # "BAD_REQUEST")
       => /\ ret'.code = IF ret'.id \notin DOMAIN bookmarks THEN "NOT_FOUND"
                         ELSE "FORBIDDEN"
          /\ ret'.id \in DOMAIN bookmarks
               => bookmarks[ret'.id].userId # ret'.user
          /\ UNCHANGED <<store, queues, searchIdx, releaseLog>>

\* C1: a request of a gated operation that arrives for a missing bookmark ends with
\* NOT_FOUND, one that arrives for another user's bookmark ends with FORBIDDEN, and
\* in both cases nothing of the body has run; the body starts only for an existing
\* bookmark owned by the caller.
C1_GateOrder == [][GateStep]_vars

\* C1 witness: a request was refused with FORBIDDEN while another request's body runs.
C1_Witness ==
  /\ ret.code = "FORBIDDEN"
  /\ \E c \in Slots : calls[c].pc # "idle" /\ calls[c].op \in GatedOps

\* The rows of bookmark id in every table that holds some.
RowsOf(id) ==
  <<IF id \in DOMAIN bookmarks THEN {bookmarks[id]} ELSE {},
    IF id \in DOMAIN bookmarkLinks THEN {bookmarkLinks[id]} ELSE {},
    IF id \in DOMAIN bookmarkTexts THEN {bookmarkTexts[id]} ELSE {},
    IF id \in DOMAIN bookmarkAssets THEN {bookmarkAssets[id]} ELSE {},
    {t \in tagsOnBookmarks : t.bookmarkId = id}>>

\* The jobs waiting for bookmark id, per topic.
JobsOf(id) == <<crawlQ[id], openaiQ[id], searchQ[<<id, "index">>],
                searchQ[<<id, "delete">>]>>

\* This step adds a job for bookmark id to some queue.
JobAdded(id) == \E i \in 1 .. 4 : JobsOf(id)'[i] > JobsOf(id)[i]

\* What C2 asks of every step.
TenantStep ==
  /\ \A c \in Slots :
       (Started(c) /\ calls'[c].op \in GatedOps)
         => bookmarks[calls'[c].id].userId = calls'[c].user
  /\ Rejected => ret'.code # "OK"
  /\ \A id \in DOMAIN bookmarks :
       ((store' # store \/ queues' # queues)
        /\ (RowsOf(id)' # RowsOf(id) \/ JobAdded(id)))
         => \E c \in Slots : /\ calls[c].pc # "idle"
                             /\ calls[c].id = id
                             /\ calls[c].user = bookmarks[id].userId
  /\ \A k \in DOMAIN releaseLog :
       releaseLog'[k] > releaseLog[k]
         => \E c \in Slots : /\ calls[c].pc # "idle"
                             /\ calls[c].user = k[1]
                             /\ calls[c].changes > 0

\* C2: a request that targets another user's bookmark ends with an error and its
\* body never starts; every change of a bookmark's rows and every job enqueued for
\* an existing bookmark is made by a running request of the bookmark's owner, and
\* every asset release by a running request of the releasing user that removed a row.
C2_CrossTenant == [][TenantStep]_vars

\* C2 witness: u2's request on a bookmark of u1 was refused and the bookmark is there.
C2_Witness ==
  /\ ret.code = "FORBIDDEN"
  /\ ret.user = "u2"
  /\ ret.op \in {"updateBookmarkText", "deleteBookmark"}
  /\ ret.id \in DOMAIN bookmarks
  /\ bookmarks[ret.id].userId = "u1"

\* The content variants bookmark id has a row of.
Variants(id) ==
  {t \in {"link", "text", "asset"} :
     \/ t = "link" /\ id \in DOMAIN bookmarkLinks
     \/ t = "text" /\ id \in DOMAIN bookmarkTexts
     \/ t = "asset" /\ id \in DOMAIN bookmarkAssets}

\* C3: every bookmark row has exactly one content-variant row, so toZodSchema never
\* derives type unknown for it, and no variant row is without its bookmark row; a
\* failed createBookmark therefore leaves no row behind.
C3_OneVariant ==
  /\ \A id \in DOMAIN bookmarks :
       Cardinality(Variants(id)) = 1 /\ toZodSchema(id) # "unknown"
  /\ \A id \in Ids : Variants(id) # {} => id \in DOMAIN bookmarks

\* C3 witness: a createBookmark succeeded and a later one failed with BAD_REQUEST.
C3_Witness ==
  /\ ret.op = "createBookmark"
  /\ ret.code = "BAD_REQUEST"
  /\ Cardinality(DOMAIN created) = 2
  /\ 2 \in DOMAIN bookmarks

\* C4: every job in a queue, and every job createBookmark is about to add, is for a
\* bookmark whose creating transaction has committed.
C4_EnqueueAfterCommit ==
  /\ \A id \in Ids :
       JobsOf(id) # <<0, 0, 0, 0>> => id \in DOMAIN created
  /\ \A c \in Slots :
       calls[c].op = "createBookmark" => calls[c].id \in DOMAIN created

\* C4 witness: a createBookmark has committed its rows and has enqueued nothing yet.
C4_Witness ==
  \E c \in Slots :
    /\ At(c, "createBookmark", "enqueue")
    /\ calls[c].id \in DOMAIN bookmarks
    /\ JobsOf(calls[c].id) = <<0, 0, 0, 0>>

\* This step is one of the createBookmark request running (or arriving) in slot c.
CreateStep(c) ==
  /\ calls'[c] # calls[c]
  /\ calls[c].op = "createBookmark" \/ calls'[c].op = "createBookmark"

\* What C5 asks of every step.
FirstStageStep ==
  \A c \in Slots :
    CreateStep(c) =>
      IF At(c, "createBookmark", "enqueue")
        THEN LET id == calls[c].id IN
               IF created[id].type = "link"
                 THEN crawlQ' = Add(crawlQ, id) /\ openaiQ' = openaiQ
                 ELSE openaiQ' = Add(openaiQ, id) /\ crawlQ' = crawlQ
        ELSE crawlQ' = crawlQ /\ openaiQ' = openaiQ

\* C5: createBookmark adds one crawl job and no tagging job for a link, one tagging
\* job and no crawl job for a text or an asset, in its enqueue step and nowhere else.
C5_FirstStage == [][FirstStageStep]_vars

\* C5 witness: a link bookmark just created has its crawl job and no tagging job, and
\* a text bookmark its tagging job and no crawl job.
C5_Witness ==
  /\ 1 \in DOMAIN bookmarkTexts /\ 2 \in DOMAIN bookmarkLinks
  /\ created[1].type = "text" /\ created[2].type = "link"
  /\ crawlQ = [i \in Ids |-> IF i = 2 THEN 1 ELSE 0]
  /\ openaiQ = [i \in Ids |-> IF i = 1 THEN 1 ELSE 0]
  /\ ret.op = "createBookmark" /\ ret.code = "OK"

\* C6: no job on the crawl topic is for a bookmark whose content is text or asset.
C6_CrawlOnlyLinks ==
  \A id \in Ids : crawlQ[id] > 0 => toZodSchema(id) \notin {"text", "asset"}

\* The asset bookmarks of user k[1] with asset k[2] whose row has been deleted.
DeletedWithAsset(k) ==
  {id \in DOMAIN created :
     /\ created[id].type = "asset"
     /\ created[id].userId = k[1]
     /\ created[id].assetId = k[2]
     /\ id \notin DOMAIN bookmarks}

\* C7: an asset is released only for an asset bookmark whose row has been deleted,
\* never more often than there are such rows, and once no deleteBookmark is running
\* exactly once per deleted asset bookmark; deleting link or text bookmarks
\* releases nothing.
C7_AssetRelease ==
  \A k \in DOMAIN releaseLog :
    /\ releaseLog[k] <= Cardinality(DeletedWithAsset(k))
    /\ (\A c \in Slots : calls[c].op # "deleteBookmark")
         => releaseLog[k] = Cardinality(DeletedWithAsset(k))

\* C7 witness: two requests have returned, the last one a successful deleteBookmark
\* of asset bookmark 1, and asset a1 of u1 has been released exactly once.
C7_Witness ==
  /\ NoHandler
  /\ nOps = 2
  /\ ret.op = "deleteBookmark" /\ ret.code = "OK" /\ ret.id = 1
  /\ created[1].type = "asset"
  /\ 1 \notin DOMAIN bookmarks
  /\ releaseLog[<<"u1", "a1">>] = 1

\* This step is the arrival of a deleteBookmark request for bookmark id.
DeleteArrives(id) ==
  \/ Rejected /\ ret'.op = "deleteBookmark" /\ ret'.id = id
  \/ \E c \in Slots :
       Started(c) /\ calls'[c].op = "deleteBookmark" /\ calls'[c].id = id

\* What C8 asks of every step, as the claim has it.
DeleteMissingOkStep ==
  \A id \in Ids \ DOMAIN bookmarks :
    DeleteArrives(id)
      => /\ ~ (Rejected /\ ret'.code # "OK")
         /\ UNCHANGED <<store, searchIdx, releaseLog>>

\* C8 as claimed: deleteBookmark of an id that has no row completes without an
\* error, changes no row and releases no asset.
C8_DeleteMissingOk == [][DeleteMissingOkStep]_vars

\* What C8 asks of every step, as amended.
DeleteMissingStep ==
  \A id \in Ids \ DOMAIN bookmarks :
    DeleteArrives(id)
      => /\ Rejected
         /\ ret'.code = "NOT_FOUND"
         /\ UNCHANGED <<store, queues, searchIdx, releaseLog>>

\* C8 amended: deleteBookmark of an id that has no row fails with NOT_FOUND; it
\* changes no row, enqueues no job and releases no asset.
C8_DeleteMissingNotFound == [][DeleteMissingStep]_vars

\* C8 witness: deleteBookmark was refused with NOT_FOUND for an id deleted before.
C8_Witness ==
  /\ ret.op = "deleteBookmark"
  /\ ret.code = "NOT_FOUND"
  /\ ret.id \in DOMAIN created
  /\ ret.id \notin DOMAIN bookmarks

\* No request handler is running and the search indexing queue has drained.
SearchQuiescent ==
  /\ NoHandler
  /\ searchW.pc = "idle"
  /\ \A j \in DOMAIN searchQ : searchQ[j] = 0

\* C9: once the requests have returned and the search indexing queue has drained,
\* the index holds no document for a bookmark that is not in the store, in whatever
\* order the index and delete jobs were taken.
C9_NoResurrection ==
  SearchQuiescent => DOMAIN searchIdx \subseteq DOMAIN bookmarks

\* C9 witness: bookmark id is deleted and its delete job has been processed (the
\* document is gone) while an index job for the same id is still waiting.
C9_Witness ==
  \E id \in DOMAIN created :
    /\ NoHandler
    /\ searchW.pc = "idle"
    /\ id \notin DOMAIN bookmarks
    /\ id \notin DOMAIN searchIdx
    /\ searchQ[<<id, "delete">>] = 0
    /\ searchQ[<<id, "index">>] > 0

\* C10: once the requests have returned and every queue has drained, the index
\* holds exactly one document per bookmark of the store, with its owner id and its
\* current searchable text.
C10_IndexConsistent ==
  (/\ SearchQuiescent
   /\ \A id \in Ids : crawlQ[id] = 0 /\ openaiQ[id] = 0)
    => /\ DOMAIN searchIdx = DOMAIN bookmarks
       /\ \A id \in DOMAIN bookmarks : searchIdx[id] = DocOf(id)

\* This step is one of the Mutation API: a request arrives or a handler moves on.
ApiStep == nOps' # nOps \/ calls' # calls

\* This step ends a request, with ret' its result.
Returned ==
  \/ Rejected
  \/ \E c \in Slots : calls[c].pc # "idle" /\ calls'[c].pc = "idle"

\* The operations that change searchable content of a bookmark that stays.
IndexOps == {"createBookmark", "updateBookmark", "updateBookmarkText"}

\* What C11 asks of every step.
SearchTriggerStep ==
  ApiStep =>
    IF Returned /\ ret'.code = "OK" /\ ret'.op \in IndexOps
      THEN searchQ' = Add(searchQ, <<ret'.id, "index">>)
    ELSE IF Returned /\ ret'.code = "OK" /\ ret'.op = "deleteBookmark"
      THEN searchQ' = Add(searchQ, <<ret'.id, "delete">>)
    ELSE searchQ' = searchQ

\* C11: a createBookmark, updateBookmark or updateBookmarkText that succeeds adds
\* exactly one search_indexing job of kind index for its bookmark id, a deleteBookmark
\* that succeeds adds exactly one of kind delete, each in the step that returns, and
\* no other step of a request (one that fails with NOT_FOUND, FORBIDDEN or a
\* validation error included) adds a search_indexing job.
C11_SearchTrigger == [][SearchTriggerStep]_vars

\* C11 witness: an edit and then the delete of the same bookmark have succeeded and
\* one index job and one delete job for it are waiting.
C11_Witness ==
  /\ NoHandler
  /\ ret.op = "deleteBookmark" /\ ret.code = "OK"
  /\ searchQ[<<ret.id, "index">>] = 1
  /\ searchQ[<<ret.id, "delete">>] = 1

\* What C19 asks of every step.
RecrawlStep ==
  /\ \A c \in Slots :
       (Started(c) /\ calls'[c].op = "recrawlBookmark")
         => UNCHANGED <<store, queues, searchIdx, releaseLog>>
  /\ (Rejected /\ ret'.op = "recrawlBookmark")
       => ~ (ret'.id \in DOMAIN bookmarks /\ bookmarks[ret'.id].userId = ret'.user)
  /\ \A c \in Slots :
       (calls[c].op = "recrawlBookmark" /\ calls'[c] # calls[c])
         => /\ crawlQ' = Add(crawlQ, calls[c].id)
            /\ ret' = Ret("recrawlBookmark", calls[c].user, calls[c].id, "OK")
            /\ calls'[c] = Idle
            /\ UNCHANGED <<store, openaiQ, searchQ, searchIdx, releaseLog>>

\* C19: recrawlBookmark by the owner is never refused, adds exactly one crawl job for
\* the bookmark id whatever crawledAt is and however many crawl jobs are waiting,
\* returns OK and changes no row of the store.
C19_RecrawlUnconditional == [][RecrawlStep]_vars

\* C19 witness: the owner's second recrawlBookmark of a link that was already
\* crawled has returned, and two crawl jobs for it are waiting.
C19_Witness ==
  /\ ret.op = "recrawlBookmark" /\ ret.code = "OK"
  /\ ret.id \in DOMAIN bookmarkLinks
  /\ bookmarkLinks[ret.id].crawledAt = 1
  /\ crawlQ[ret.id] = 2

\* C12: however often and by whomever a tag name is attached, there is one tag row
\* per (owner, name) and one attachment row per (bookmark, tag); an updateTags that
\* attaches again fails only if its bookmark has been deleted meanwhile.
C12_AttachOnce ==
  /\ \A t1, t2 \in DOMAIN bookmarkTags :
       (/\ bookmarkTags[t1].name = bookmarkTags[t2].name
        /\ bookmarkTags[t1].userId = bookmarkTags[t2].userId) => t1 = t2
  /\ \A r1, r2 \in tagsOnBookmarks :
       (r1.bookmarkId = r2.bookmarkId /\ r1.tagId = r2.tagId) => r1 = r2
  /\ (ret.op = "updateTags" /\ ret.code = "INTERNAL_SERVER_ERROR")
       => ret.id \notin DOMAIN bookmarks

\* C12 witness: tag x was attached to a bookmark by its owner through updateTags and
\* the tagger, which returns x, has then succeeded on that bookmark; there is one
\* tag row and one attachment row.
C12_Witness ==
  \E r \in tagsOnBookmarks :
    /\ r.attachedBy = "human"
    /\ r.bookmarkId \in DOMAIN bookmarks
    /\ bookmarks[r.bookmarkId].taggingStatus = "success"
    /\ created[r.bookmarkId].recrawls = 1
    /\ tagsOnBookmarks = {r}
    /\ Cardinality(DOMAIN bookmarkTags) = 1

\* The updateTags transaction of this step detaches attachment row r.
DetachedNow(r) ==
  \E c \in Slots :
    /\ At(c, "updateTags", "tx")
    /\ calls'[c] # calls[c]
    /\ calls[c].id = r.bookmarkId
    /\ r.tagId \in {d.tagId : d \in Range(calls[c].in.detach)}

\* What C13 asks of every step.
ProvenanceStep ==
  \A r \in tagsOnBookmarks : \A r2 \in tagsOnBookmarks' :
    (r2.bookmarkId = r.bookmarkId /\ r2.tagId = r.tagId)
      => (r2.attachedBy = r.attachedBy \/ DetachedNow(r))

\* C13: an attachment row keeps the attachedBy it was inserted with for as long as
\* it exists: attaching the tag again, by updateTags or by the tagger, leaves it;
\* only an updateTags that detaches the tag can replace the row.
C13_ProvenanceKept == [][ProvenanceStep]_vars

\* C13 witness: updateTags by the owner has succeeded on a bookmark whose tag x was
\* attached by the tagger, and the row still says ai.
C13_Witness ==
  /\ ret.op = "updateTags" /\ ret.code = "OK"
  /\ nOps = 1
  /\ \E r \in tagsOnBookmarks :
       /\ r.bookmarkId = ret.id
       /\ r.attachedBy = "ai"
       /\ bookmarkTags[r.tagId].name = "x"

\* The bookmarks of user u that are in the store.
OwnedBy(u) == {id \in DOMAIN bookmarks : bookmarks[id].userId = u}

\* What C14 asks of every step.
SearchTenantStep ==
  /\ (Returned /\ ret'.op = "searchBookmarks" /\ ret'.code = "OK")
       => ret'.out \subseteq (ret'.hits \cap OwnedBy(ret'.user))
  /\ \A c \in Slots :
       (calls'[c].op = "searchBookmarks" /\ calls'[c].pc = "findMany")
         => calls'[c].in.filter = calls'[c].user

\* C14: every bookmark searchBookmarks returns is one of the engine's hits, is owned
\* by the caller and is in the store when the handler returns, whatever ids the
\* engine answered with; the engine was called with the caller as owner filter.
C14_SearchTenantSafe == [][SearchTenantStep]_vars

\* C14 witness: the engine answered u1's search with both ids while bookmark 2 was
\* not u1's (another user's, or deleted), and the search returned bookmark 1 alone.
C14_Witness ==
  /\ ret.op = "searchBookmarks" /\ ret.code = "OK"
  /\ ret.user = "u1"
  /\ ret.hits = Ids
  /\ ret.out = {1}
  /\ 2 \in DOMAIN created

\* What C15 asks of every step.
SearchClientStep ==
  \A c \in Slots :
    (/\ At(c, "searchBookmarks", "client")
     /\ ~ calls[c].in.client
     /\ calls'[c] # calls[c])
      => /\ calls'[c] = Idle
         /\ ret' = Ret("searchBookmarks", calls[c].user, 0, "INTERNAL_SERVER_ERROR")

\* C15: a searchBookmarks that finds no search client ends with the error
\* INTERNAL_SERVER_ERROR ("Search functionality is not configured"); it returns no
\* result list, empty or not.
C15_SearchFailsClosed == [][SearchClientStep]_vars

\* C15 witness: a search without a client has ended with the error while the
\* caller owns a bookmark.
C15_Witness ==
  /\ ret.op = "searchBookmarks"
  /\ ret.code = "INTERNAL_SERVER_ERROR"
  /\ OwnedBy(ret.user) # {}

\* This step is a worker's on a job of bookmark id: the job is taken off its queue,
\* or the job in progress ends.
WorkerStepFor(id) ==
  \/ crawlQ'[id] < crawlQ[id]
  \/ openaiQ'[id] < openaiQ[id]
  \/ \E k \in JobKinds : searchQ'[<<id, k>>] < searchQ[<<id, k>>]
  \/ crawlW.pc # "idle" /\ crawlW.id = id /\ crawlW' # crawlW
  \/ openaiW.pc # "idle" /\ openaiW.id = id /\ openaiW' # openaiW
  \/ searchW.pc # "idle" /\ searchW.id = id /\ searchW' # searchW

\* What C16 asks of every step.
CancelStep ==
  \A id \in Ids \ DOMAIN bookmarks :
    WorkerStepFor(id)
      => /\ UNCHANGED store
         /\ ~ JobAdded(id)
         /\ (crawlQ' # crawlQ \/ crawlW' # crawlW) => crawlW' = StageIdle
         /\ (openaiQ' # openaiQ \/ openaiW' # openaiW) => openaiW' = StageIdle
         /\ (searchQ' # searchQ \/ searchW' # searchW) => searchW' = WorkerIdle

\* C16: a crawl, tagging or indexing job that is taken or that ends when its
\* bookmark is not in the store writes no row of any table, enqueues no further job
\* for the id and is over (it is not put back on its queue).
C16_DeleteCancels == [][CancelStep]_vars

\* C16 witness: deleteBookmark has returned for a link bookmark whose crawl job is
\* in progress.
C16_Witness ==
  /\ ret.op = "deleteBookmark" /\ ret.code = "OK"
  /\ crawlW.pc = "fetch" /\ crawlW.id = ret.id
  /\ ret.id \notin DOMAIN bookmarks

Terminal == {"success", "failure"}

\* The enrichment jobs of bookmark id that are waiting or in progress.
Enrichments(id) ==
  crawlQ[id] + openaiQ[id]
  + (IF crawlW.pc # "idle" /\ crawlW.id = id THEN 1 ELSE 0)
  + (IF openaiW.pc # "idle" /\ openaiW.id = id THEN 1 ELSE 0)

\* What C17 asks of every step.
TaggingStatusStep ==
  /\ \A id \in DOMAIN bookmarks \cap DOMAIN bookmarks' :
       LET a == bookmarks[id].taggingStatus
           b == bookmarks'[id].taggingStatus
       IN  a # b =>
             /\ ~ ApiStep
             /\ \/ /\ a = "pending" /\ b \in Terminal
                   /\ openaiW.pc = "tag" /\ openaiW.id = id /\ openaiW' = StageIdle
                \/ /\ a \in Terminal /\ b = "pending"
                   /\ openaiQ'[id] < openaiQ[id]
                   /\ created[id].recrawls > 0
  /\ \A id \in DOMAIN bookmarks' :
       bookmarks'[id].taggingStatus \in Terminal
         => Enrichments(id)' <= created'[id].recrawls

CrawledAtStep ==
  /\ DOMAIN bookmarkLinks' \subseteq {id \in DOMAIN created' : created'[id].type = "link"}
  /\ \A id \in DOMAIN bookmarkLinks' :
       (id \in DOMAIN bookmarkLinks
        /\ bookmarkLinks'[id].crawledAt # bookmarkLinks[id].crawledAt)
         => /\ ~ ApiStep
            /\ crawlW.pc = "fetch" /\ crawlW.id = id /\ crawlW' = StageIdle
            /\ bookmarkLinks'[id].crawledAt = bookmarkLinks[id].crawledAt + 1
  /\ \A id \in DOMAIN bookmarkLinks' \ DOMAIN bookmarkLinks :
       bookmarkLinks'[id].crawledAt = 0
  /\ \A id \in DOMAIN bookmarkLinks' :
       bookmarkLinks'[id].crawledAt <= 1 + created'[id].recrawls

C20_FailurePropagates ==
  (\E w \in WorkerNames : runs[w] = "rejected")
    => /\ Awaited = "rejected"
       /\ main # "returned"

\* The workers other than the video worker.
CoreWorkers == WorkerNames \ {"video"}

\* C21: no request puts a job on the video topic, and a worker process that has no
\* video worker has called run() on the crawler, openai and search workers and is
\* waiting on them: the missing worker neither ends main() nor settles its await.
C21_VideoOptional ==
  /\ \A id \in Ids : videoQ[id] = 0
  /\ runs["video"] = "undefined"
       => /\ main = "awaiting"
          /\ \A w \in CoreWorkers : runs[w] = "pending"
          /\ Awaited = "pending"

\* C21 witness: the worker process runs without a video worker and a link bookmark
\* has been created, its crawl job waiting.
C21_Witness ==
  /\ runs["video"] = "undefined"
  /\ ret.op = "createBookmark" /\ ret.code = "OK"
  /\ created[ret.id].type = "link"
  /\ crawlQ[ret.id] = 1

\* The loading window of bookmark data b has elapsed.
Expired(b) == now - b.createdAt >= MAX_LOADING_MSEC

\* What C22 asks of every step of the card.
CardStep ==
  card' # card
    => /\ Expired(card'.data) => card'.interval = 0
       /\ card'.interval \in {0, 1000}
       /\ card'.interval = 1000 => isBookmarkStillLoading(card'.data)

\* What C22 asks of every state.
ExpiredNotLoading ==
  \A id \in DOMAIN bookmarks :
    LET b == ZBookmarkOf(id) IN
      /\ Expired(b)
           => /\ ~ isBookmarkStillCrawling(b)
              /\ ~ isBookmarkStillTagging(b)
              /\ ~ isBookmarkStillLoading(b)
      /\ b.type # "link" => ~ isBookmarkStillCrawling(b)

\* C22: for every bookmark whose loading window has elapsed the three predicates are
\* false, whatever crawledAt and taggingStatus are; a text or asset bookmark is never
\* still crawling; and whenever the card evaluates refetchInterval on data whose
\* window has elapsed it stops polling.
C22_LoadingExpires == []ExpiredNotLoading /\ [][CardStep]_vars

\* C22 witness: the card of a link whose crawl never completed, and whose tagging
\* therefore never started, has stopped polling after the window.
C22_Witness ==
  /\ card.id \in DOMAIN bookmarks
  /\ card.data.type = "link"
  /\ card.data.crawledAt = 0
  /\ card.data.taggingStatus = "pending"
  /\ Expired(card.data)
  /\ card.interval = 0
  /\ crawlQ[card.id] = 0 /\ crawlW = StageIdle

\* What C23 asks of every step.
TextStep ==
  /\ \A c \in Slots :
       calls'[c].op = "updateBookmarkText" => calls'[c].in.len <= MaxTextLen
  /\ (Rejected /\ ret'.op = "updateBookmarkText" /\ ret'.code = "BAD_REQUEST")
       => UNCHANGED <<store, queues, searchIdx>>
  /\ \A c \in Slots :
       (At(c, "updateBookmarkText", "update") /\ calls'[c].pc = "finish"
        /\ calls[c].id \in DOMAIN bookmarkTexts)
         => /\ bookmarkTexts'[calls[c].id].text = calls[c].in.text
            /\ calls'[c].changes = 1

\* C23: a text longer than 2000 characters never reaches the handler of
\* updateBookmarkText: the request ends with a validation failure, the store and the
\* queues as they were; a text of at most 2000 characters that reaches the update on
\* a text bookmark replaces the stored text.
C23_TextCapped == [][TextStep]_vars

\* C23 witness: a text of 2000 characters has replaced the text of bookmark 1, and a
\* longer one was then refused, the stored text and the queue as they were.
C23_Witness ==
  /\ nOps = 2
  /\ ret.op = "updateBookmarkText" /\ ret.code = "BAD_REQUEST" /\ ret.id = 1
  /\ 1 \in DOMAIN bookmarkTexts
  /\ bookmarkTexts[1].text = "t1"
  /\ searchQ[<<1, "index">>] = 1

\* The columns of a bookmarks row that updateBookmark may write.
Flags == {"archived", "favourited", "note"}

\* What C24 asks of every step.
FrameStep ==
  /\ \A id \in DOMAIN bookmarks \cap DOMAIN bookmarks' :
       /\ bookmarks'[id].userId = bookmarks[id].userId
       /\ bookmarks'[id].createdAt = bookmarks[id].createdAt
  /\ \A id \in DOMAIN bookmarkLinks \cap DOMAIN bookmarkLinks' :
       bookmarkLinks'[id].url = bookmarkLinks[id].url
  /\ \A c \in Slots :
       calls[c].op = "updateBookmark"
         => /\ UNCHANGED <<bookmarkLinks, bookmarkTexts, bookmarkAssets, bookmarkTags,
                           tagsOnBookmarks>>
            /\ DOMAIN bookmarks' = DOMAIN bookmarks
            /\ \A id \in DOMAIN bookmarks :
                 /\ id # calls[c].id => bookmarks'[id] = bookmarks[id]
                 /\ \A f \in DOMAIN bookmarks[id] \ Flags :
                      bookmarks'[id][f] = bookmarks[id][f]
                 /\ \A f \in Flags \ DOMAIN calls[c].in :
                      bookmarks'[id][f] = bookmarks[id][f]
            /\ (At(c, "updateBookmark", "update") /\ calls'[c].changes = 1)
                 => \A f \in Flags \cap DOMAIN calls[c].in :
                      bookmarks'[calls[c].id][f] = calls[c].in[f]

\* C24: no step changes the userId or the createdAt of a bookmark row that stays, or
\* the url of a link row that stays; a step of updateBookmark changes nothing but
\* archived, favourited and note of its target row, sets the fields the request
\* carries and keeps the ones it omits, and leaves every other row of every table.
C24_Frame == [][FrameStep]_vars

\* C24 witness: two updateBookmark requests on bookmark 1, made after its creation
\* time, have set all three fields between them; createdAt is what it was.
C24_Witness ==
  /\ nOps = 2
  /\ now > 0
  /\ ret.op = "updateBookmark" /\ ret.code = "OK" /\ ret.id = 1
  /\ bookmarks[1].archived /\ bookmarks[1].favourited /\ bookmarks[1].note = "n1"
  /\ bookmarks[1].createdAt = 0

Releasing(k) ==
  {c \in Slots : /\ calls[c].op = "deleteBookmark"
                 /\ calls[c].pc = "finish"
                 /\ calls[c].user = k[1]
                 /\ calls[c].asset = k[2]
                 /\ calls[c].changes > 0}

\* The deleteBookmark handlers on bookmark id whose delete has run.
Deleters(id) ==
  {c \in Slots : /\ calls[c].op = "deleteBookmark"
                 /\ calls[c].pc = "finish"
                 /\ calls[c].id = id}

\* C26: of the deleteBookmark calls running on one bookmark at most one has removed
\* the row, and that one read the asset before; the releases made and the releases
\* still to be made by the calls that removed a row add up to exactly one per deleted
\* asset bookmark, so an asset is released once and never twice.
C26_ReleaseOnce ==
  /\ \A id \in Ids :
       /\ Cardinality({c \in Deleters(id) : calls[c].changes > 0}) <= 1
       /\ \A c \in Deleters(id) :
            (calls[c].changes > 0 /\ created[id].type = "asset")
              => calls[c].asset = created[id].assetId
  /\ \A k \in DOMAIN releaseLog :
       releaseLog[k] + Cardinality(Releasing(k)) = Cardinality(DeletedWithAsset(k))

\* C26 witness: two deleteBookmark calls of the owner ran on asset bookmark 1 at the
\* same time; both deletes have run, one removed the row and the other did not.
C26_Witness ==
  /\ Deleters(1) = Slots
  /\ created[1].type = "asset"
  /\ \E c \in Slots : calls[c].changes = 1 /\ calls[c].asset = "a1"
  /\ \E c \in Slots : calls[c].changes = 0 /\ calls[c].asset = "a1"
  /\ releaseLog[<<"u1", "a1">>] = 0

\* The ids of the pages the client has got, one after the other.
RECURSIVE Flatten(_)
Flatten(pages) ==
  IF pages = <<>> THEN <<>> ELSE Head(pages) \o Flatten(Tail(pages))

\* C27 as claimed: while the store is as it was when the client started, no page
\* is longer than limit, the bookmarks got so far are in descending createdAt order
\* and none of them came twice (also with equal createdAt at a page boundary), and
\* once nextCursor is null they are all the caller's bookmarks.
C27_Pagination ==
  (pager.pc # "idle" /\ bookmarks = pager.snap)
    => LET got == Flatten(pager.pages) IN
         /\ \A p \in DOMAIN pager.pages : Len(pager.pages[p]) <= pager.limit
         /\ \A i, j \in DOMAIN got :
              i < j => /\ got[i] # got[j]
                       /\ bookmarks[got[i]].createdAt >= bookmarks[got[j]].createdAt
         /\ pager.pc = "done"
              => {got[i] : i \in DOMAIN got} = Matching(pager.user, -1)

\* The updateTags call of slot c commits or rolls back in this step.
TagsStep(c) ==
  (At(c, "updateTags", "tx") /\ calls'[c].pc = "idle") =>
    LET u == calls[c].user
        id == calls[c].id
        in == calls[c].in
        IsAttached(t) == \E r \in tagsOnBookmarks' : r.bookmarkId = id /\ r.tagId = t
        Named(t, n) == /\ t \in DOMAIN bookmarkTags'
                       /\ bookmarkTags'[t].name = n
                       /\ bookmarkTags'[t].userId = u
    IN  IF ret'.code = "OK"
          THEN /\ \A a \in Range(in.attach) :
                    \E t \in DOMAIN bookmarkTags' : Named(t, a.tag) /\ IsAttached(t)
               /\ \A d \in Range(in.detach) :
                    (\A a \in Range(in.attach) : ~ Named(d.tagId, a.tag))
                      => ~ IsAttached(d.tagId)
          ELSE bookmarkTags' = bookmarkTags /\ tagsOnBookmarks' = tagsOnBookmarks

\* C28 as claimed: a successful updateTags leaves every tag named in attach attached
\* to the bookmark (also when the entry carries a tagId or the tag is listed in
\* detach too) and every tag listed only in detach not attached; a failed one
\* leaves tags and attachments as they were.
C28_UpdateTags == [][\A c \in Slots : TagsStep(c)]_vars

\* The handler of slot c runs updateBookmarkText, past the ownership gate, on a
\* bookmark of the caller whose content is a link or an asset.
TextOfNonText(c) ==
  /\ calls[c].op = "updateBookmarkText"
  /\ calls[c].pc \in {"update", "finish"}
  /\ calls[c].id \in DOMAIN bookmarks
  /\ bookmarks[calls[c].id].userId = calls[c].user
  /\ toZodSchema(calls[c].id) \in {"link", "asset"}

\* A step of such a call changes no row and adds no job, and the call ends with
\* NOT_FOUND.
NonTextStep ==
  \A c \in Slots :
    (TextOfNonText(c) /\ calls'[c] # calls[c])
      => /\ store' = store
         /\ queues' = queues
         /\ calls'[c].pc = "idle" => ret' = Ret("updateBookmarkText", calls[c].user,
                                                calls[c].id, "NOT_FOUND")

\* C29: updateBookmarkText called by the owner on a bookmark whose content is a link
\* or an asset fails with NOT_FOUND, changes no row and enqueues no search index job.
C29_TextOfNonText == [][NonTextStep]_vars

\* C29 witness: the owner's updateBookmarkText on a link or asset bookmark that is
\* still in the store ended with NOT_FOUND.
C29_Witness ==
  /\ ret.op = "updateBookmarkText" /\ ret.code = "NOT_FOUND"
  /\ ret.id \in DOMAIN bookmarks
  /\ bookmarks[ret.id].userId = ret.user
  /\ toZodSchema(ret.id) \in {"link", "asset"}

=============================================================================
